---------------------------- MODULE Spec2Model ----------------------------
(***************************************************************************)
(* A model of the example-construction pipeline of dat_loader_simple.py:   *)
(* the padding primitive, the proposal / ground-truth loaders, the frame   *)
(* mask, the single-example assembler, the multi-video composer, the       *)
(* SPAT / TEMP box shifts and the batch collator.                          *)
(*                                                                         *)
(* Representation of values.                                               *)
(*  - A python list or a tensor axis is a TLA+ sequence (1-based: python    *)
(*    position i is TLA+ position i+1).                                    *)
(*  - A float32 tensor entry is the integer number of FUnit-ths it holds   *)
(*    (FUnit = 2^15), so 720.0 is 720*FUnit and the smallest modelled      *)
(*    fraction is 2^-15.  Every such integer below 2^24 is a float32       *)
(*    value; RoundF32 rounds a real sum to the float32 grid.               *)
(*  - A boolean mask bit is 0 or 1 (numpy / torch turn True into 1 when    *)
(*    the list is padded with 0 or a .long()/.byte() cast is applied).     *)
(*  - A dict is a record; an ordered dict is a sequence of                 *)
(*    [arg, ids] records in insertion order.                               *)
(***************************************************************************)
EXTENDS Integers, Sequences, FiniteSets, TLC

VARIABLES
    pc,      \* position of the access in progress: "ready", "gather", "done", "raised"
    cfg,     \* the dataset object's configuration fields (set_args / after_init)
    store,   \* the tables loaded at initialization (h5 arrays, annotations)
    call,    \* the operation called last and its arguments
    loc,     \* local variables of an access that is under way
    ret      \* the value the last completed operation returned

vars == <<pc, cfg, store, call, loc, ret>>

None == [none |-> TRUE]

(***************************************************************************)
(* Bounds of the model.                                                    *)
(***************************************************************************)
MaxLen == 3       \* longest list handed to the padding primitive
MaxPad == 4       \* largest pad_len

(***************************************************************************)
(* Small helpers.                                                          *)
(***************************************************************************)
Min(a, b) == IF a <= b THEN a ELSE b
Max(a, b) == IF a >= b THEN a ELSE b

\* All sequences over S of length 0..n.
SeqUpTo(S, n) == UNION {[1..k -> S] : k \in 0..n}

\* python: lst * k  (the list repeated k times)
ListTimes(lst, k) ==
    [i \in 1..(Len(lst) * Max(k, 0)) |-> lst[((i - 1) % Len(lst)) + 1]]

\* python: lst[:k]  (k may be negative: then the last -k elements are dropped)
PyPrefix(lst, k) ==
    LET n    == Len(lst)
        stop == IF k >= 0 THEN Min(k, n) ELSE Max(n + k, 0)
    IN  SubSeq(lst, 1, stop)

(***************************************************************************)
(* AnetEntDataset.pad_words_with_vocab (voc = None, as every caller of the *)
(* proposal, ground-truth and composer code passes it).                    *)
(***************************************************************************)
PadNoTrim(out_list, pad_len, defm) ==
    LET curr_len == Len(out_list) IN
    IF pad_len = -1 \/ curr_len >= pad_len
    THEN out_list
    ELSE out_list \o ListTimes(defm, pad_len - curr_len)

pad_words_with_vocab(out_list, pad_len, defm) ==
    LET curr_len == Len(out_list) IN
    IF pad_len = -1 \/ curr_len = pad_len
    THEN out_list
    ELSE IF curr_len > pad_len
         THEN PyPrefix(out_list, pad_len)
         ELSE out_list \o ListTimes(defm, pad_len - curr_len)

(***************************************************************************)
(* Inputs of the padding primitive: lists of scalars, of fixed-width rows  *)
(* and of nested lists, each with the one-element filler list of its kind. *)
(***************************************************************************)
ElemKinds == {"scalar", "row", "nested"}

Elems(kind) ==
    CASE kind = "scalar" -> {0, 1, 2}
      [] kind = "row"    -> {<<0, 0>>, <<3, 4>>}
      [] kind = "nested" -> {<< <<0>>, <<0>> >>, << <<5>>, <<6>> >>}

Fillers(kind) ==
    CASE kind = "scalar" -> {<<1>>, <<0>>}
      [] kind = "row"    -> {<< <<0, 0>> >>}
      [] kind = "nested" -> {<< << <<0>>, <<0>> >> >>}

PadCall ==
    /\ pc = "ready"
    /\ \E kind \in ElemKinds :
         \E s \in SeqUpTo(Elems(kind), MaxLen), p \in -1..MaxPad, d \in Fillers(kind) :
            /\ call' = [op |-> "pad_words_with_vocab", kind |-> kind,
                        out_list |-> s, pad_len |-> p, defm |-> d]
            /\ ret' = pad_words_with_vocab(s, p, d)
    /\ pc' = "done"
    /\ UNCHANGED <<cfg, store, loc>>

InitIdle ==
    /\ pc = "ready"
    /\ cfg = None
    /\ store = None
    /\ call = [op |-> "none"]
    /\ loc = None
    /\ ret = None

\* The caller takes the result (or the exception); the object is ready for the
\* next access.  The tables and the configuration stay as they are.
Return ==
    /\ pc \in {"done", "raised"}
    /\ pc' = "ready"
    /\ call' = [op |-> "none"]
    /\ loc' = None
    /\ ret' = None
    /\ UNCHANGED <<cfg, store>>

NextPad == PadCall \/ Return

SpecPad == InitIdle /\ [][NextPad]_vars

(***************************************************************************)
(* C1: pad_words_with_vocab returns a list of exactly pad_len elements for *)
(* every pad_len >= 0, the input unchanged for pad_len = -1, the prefix    *)
(* s[:pad_len] when len(s) >= pad_len, and s followed by pad_len - len(s)  *)
(* copies of the filler element when len(s) < pad_len; for lists of        *)
(* scalars, of rows and of nested lists alike.                             *)
(***************************************************************************)
C1_PadContract ==
    (pc = "done" /\ call.op = "pad_words_with_vocab") =>
        LET s == call.out_list
            p == call.pad_len
            f == call.defm[1]
        IN  /\ (p >= 0) => Len(ret) = p
            /\ (p = -1) => ret = s
            /\ (p >= 0 /\ Len(s) >= p) =>
                  \A i \in 1..p : ret[i] = s[i]
            /\ (p >= 0 /\ Len(s) < p) =>
                  /\ \A i \in 1..Len(s) : ret[i] = s[i]
                  /\ \A i \in (Len(s) + 1)..p : ret[i] = f

\* A list of rows shorter than pad_len has been padded, and a longer one trimmed.
C1_Witness ==
    /\ pc = "done"
    /\ call.op = "pad_words_with_vocab"
    /\ call.kind = "row"
    /\ Len(call.out_list) = 1
    /\ call.pad_len = 3
    /\ ret = call.out_list \o << <<0, 0>>, <<0, 0>> >>

(***************************************************************************)
(* Tensor values.                                                          *)
(***************************************************************************)
FUnit == 2^15                 \* one unit (1.0) of a float32 entry
Fl(n) == n * FUnit            \* the float32 entry holding the integer n
Zeros(n) == [i \in 1..n |-> 0]
Ones(n)  == [i \in 1..n |-> 1]

\* float32 keeps 24 significant bits: the spacing of the float32 values around a
RECURSIVE Quantum(_)
Quantum(a) == IF a < 2^24 THEN 1 ELSE 2 * Quantum(a \div 2)

\* the float32 value nearest to x (ties to the even significand)
RoundF32(x) ==
    LET a  == IF x < 0 THEN -x ELSE x
        q  == Quantum(a)
        lo == (a \div q) * q
        r  == a - lo
        up == IF 2 * r > q \/ (2 * r = q /\ (lo \div q) % 2 = 1) THEN lo + q ELSE lo
    IN  IF x < 0 THEN -up ELSE up

\* tensor.float() of a vector / of a matrix
VecF32(v) == [i \in 1..Len(v) |-> RoundF32(v[i])]
MatF32(m) == [i \in 1..Len(m) |-> VecF32(m[i])]

\* the lists of a list joined into one (torch.cat of a list, a flattening loop)
RECURSIVE Concat(_)
Concat(seqs) == IF seqs = <<>> THEN <<>> ELSE seqs[1] \o Concat(Tail(seqs))

RECURSIVE SumSeq(_)
SumSeq(v) == IF v = <<>> THEN 0 ELSE v[1] + SumSeq(Tail(v))

\* Columns of a proposal row (python column + 1).
ColX1   == 1
ColX2   == 3
ColFrm  == 5
ColCls  == 6
ColConf == 7

MaxDets == 3      \* most rows stored for one segment in the proposal store
MaxFrms == 2      \* largest num_sampled_frm
MaxPpf  == 2      \* largest num_prop_per_frm

(***************************************************************************)
(* AnetEntDataset.get_props.  c is the configuration, st the store; the    *)
(* result is the tuple (padded_props, padded_mask, num_props).             *)
(***************************************************************************)
\* the inclusion bit of one proposal row (lines 191-193)
PntMaskBit(c, row) ==
    IF row[ColConf] >= c.prop_thresh /\ (c.exclude_bgd_det => row[ColCls] # 0)
    THEN 1 ELSE 0

get_props_StrictThresh(c, st, index) ==
    LET num_proposals   == st.num_proposals[index + 1]
        label_proposals == st.label_proposals[index + 1]
        proposals       == PyPrefix(label_proposals, num_proposals)
        pnt_mask        == [i \in 1..Len(proposals) |->
                              IF proposals[i][ColConf] > c.prop_thresh
                                 /\ (c.exclude_bgd_det => proposals[i][ColCls] # 0)
                              THEN 1 ELSE 0]
    IN  [padded_props |-> pad_words_with_vocab(proposals, c.max_proposals, <<Zeros(7)>>),
         padded_mask  |-> pad_words_with_vocab(pnt_mask, c.max_proposals, <<0>>),
         num_props    |-> Min(Len(proposals), c.max_proposals)]

get_props_NoMin(c, st, index) ==
    LET num_proposals   == st.num_proposals[index + 1]
        label_proposals == st.label_proposals[index + 1]
        proposals       == PyPrefix(label_proposals, num_proposals)
        pnt_mask        == [i \in 1..Len(proposals) |-> PntMaskBit(c, proposals[i])]
    IN  [padded_props |-> pad_words_with_vocab(proposals, c.max_proposals, <<Zeros(7)>>),
         padded_mask  |-> pad_words_with_vocab(pnt_mask, c.max_proposals, <<0>>),
         num_props    |-> c.max_proposals]

get_props(c, st, index) ==
    LET num_proposals   == st.num_proposals[index + 1]
        label_proposals == st.label_proposals[index + 1]
        proposals       == PyPrefix(label_proposals, num_proposals)
        pnt_mask        == [i \in 1..Len(proposals) |-> PntMaskBit(c, proposals[i])]
        num_props       == Min(Len(proposals), c.max_proposals)
        padded_props    == pad_words_with_vocab(proposals, c.max_proposals, <<Zeros(7)>>)
        padded_mask     == pad_words_with_vocab(pnt_mask, c.max_proposals, <<0>>)
    IN  [padded_props |-> padded_props,
         padded_mask  |-> padded_mask,
         num_props    |-> num_props]

(***************************************************************************)
(* The proposal store and configuration of the get_props specification:    *)
(* one segment (index 0) whose stored rows differ in class and confidence. *)
(***************************************************************************)
ConfLo  == FUnit \div 4       \* confidence 0.25
ConfMid == FUnit \div 2       \* confidence 0.5
ConfHi  == 3 * (FUnit \div 4) \* confidence 0.75

PropRowsConf ==
    { <<Fl(10), Fl(20), Fl(30), Fl(40), Fl(0), 0,     ConfMid>>,
      <<Fl(11), Fl(21), Fl(31), Fl(41), Fl(0), Fl(3), ConfLo>>,
      <<Fl(12), Fl(22), Fl(32), Fl(42), Fl(1), Fl(3), ConfMid>>,
      <<Fl(13), Fl(23), Fl(33), Fl(43), Fl(1), Fl(7), ConfHi>> }

Thresholds == {ConfMid, ConfHi}

\* set_args: max_proposals = num_prop_per_frm * num_frms (line 84)
SetArgs(num_frms, num_prop_per_frm, prop_thresh, exclude_bgd_det, max_gt_box, add_prop_to_region) ==
    [num_frms         |-> num_frms,
     num_prop_per_frm |-> num_prop_per_frm,
     max_proposals    |-> num_prop_per_frm * num_frms,
     prop_thresh      |-> prop_thresh,
     exclude_bgd_det  |-> exclude_bgd_det,
     max_gt_box       |-> max_gt_box,
     add_prop_to_region |-> add_prop_to_region]

InitProps ==
    /\ pc = "ready"
    /\ call = [op |-> "none"]
    /\ loc = None
    /\ ret = None
    /\ \E nf \in 1..MaxFrms, np \in 1..MaxPpf, t \in Thresholds, ex \in BOOLEAN :
          cfg = SetArgs(nf, np, t, ex, 1, FALSE)
    /\ \E rows \in SeqUpTo(PropRowsConf, MaxDets) :
          \E n \in 0..Len(rows) :
             store = [num_proposals |-> <<n>>, label_proposals |-> <<rows>>]

GetPropsCall ==
    /\ pc = "ready"
    /\ call' = [op |-> "get_props", index |-> 0]
    /\ ret' = get_props(cfg, store, 0)
    /\ pc' = "done"
    /\ UNCHANGED <<cfg, store, loc>>

NextProps == GetPropsCall \/ Return

SpecProps == InitProps /\ [][NextProps]_vars

\* the detections of the segment: the first num_detections stored rows
Detections(st, index) ==
    PyPrefix(st.label_proposals[index + 1], st.num_proposals[index + 1])

(***************************************************************************)
(* C2: get_props returns max_proposals proposal rows and mask bits,        *)
(* num_props = min(number of detections, max_proposals); every row at a    *)
(* position >= num_props is all-zero with mask bit 0; below num_props the  *)
(* mask bit is 1 iff confidence >= prop_thresh and (when exclude_bgd_det)  *)
(* class != 0; and a higher threshold never turns a 0 bit into a 1.        *)
(***************************************************************************)
C2_GetProps ==
    (pc = "done" /\ call.op = "get_props") =>
        LET dets == Detections(store, call.index)
            n    == store.num_proposals[call.index + 1]
        IN  /\ Len(ret.padded_props) = cfg.max_proposals
            /\ Len(ret.padded_mask) = cfg.max_proposals
            /\ ret.num_props = Min(n, cfg.max_proposals)
            /\ \A i \in 1..cfg.max_proposals :
                  IF i > ret.num_props
                  THEN /\ ret.padded_props[i] = Zeros(7)
                       /\ ret.padded_mask[i] = 0
                  ELSE (ret.padded_mask[i] = 1) <=>
                          /\ dets[i][ColConf] >= cfg.prop_thresh
                          /\ (cfg.exclude_bgd_det => dets[i][ColCls] # 0)
            /\ \A t \in Thresholds :
                  (t >= cfg.prop_thresh) =>
                     LET hi == get_props([cfg EXCEPT !.prop_thresh = t], store, call.index)
                     IN  \A i \in 1..cfg.max_proposals :
                            (ret.padded_mask[i] = 0) => (hi.padded_mask[i] = 0)

\* A row whose confidence equals the threshold is kept, a background row is
\* dropped, and a padding row follows.
C2_Witness ==
    /\ pc = "done"
    /\ call.op = "get_props"
    /\ cfg.exclude_bgd_det
    /\ cfg.prop_thresh = ConfMid
    /\ ret.num_props = 2
    /\ cfg.max_proposals = 4
    /\ ret.padded_props[1][ColCls] = 0
    /\ ret.padded_props[2][ColConf] = ConfMid
    /\ ret.padded_mask = <<0, 1, 0, 0>>

(***************************************************************************)
(* C3 as stated: slicing the padded proposals to num_props gives back the  *)
(* whole detection set (the first num_detections stored rows).             *)
(***************************************************************************)
C3_RoundTripAll ==
    (pc = "done" /\ call.op = "get_props") =>
        PyPrefix(ret.padded_props, ret.num_props) = Detections(store, call.index)

(***************************************************************************)
(* C3 amended: slicing the padded proposals to num_props gives back the    *)
(* first min(num_detections, max_proposals) detections unchanged and in    *)
(* order, which is the whole set exactly when num_detections <=            *)
(* max_proposals.                                                          *)
(***************************************************************************)
C3_RoundTrip ==
    (pc = "done" /\ call.op = "get_props") =>
        LET dets  == Detections(store, call.index)
            slice == PyPrefix(ret.padded_props, ret.num_props)
        IN  /\ slice = PyPrefix(dets, cfg.max_proposals)
            /\ (Len(dets) <= cfg.max_proposals) => slice = dets
            /\ (Len(dets) > cfg.max_proposals) => Len(slice) < Len(dets)

\* Two detections were padded to four rows and sliced back.
C3_Witness ==
    /\ pc = "done"
    /\ call.op = "get_props"
    /\ store.num_proposals[1] = 2
    /\ cfg.max_proposals = 4
    /\ ret.padded_props[3] = Zeros(7)
    /\ PyPrefix(ret.padded_props, ret.num_props) = Detections(store, 0)


(***************************************************************************)
(* AnetEntDataset.get_gt_annots.  caption_dct holds the box list and the   *)
(* frame-index list of one segment.  The result is the returned dict, or   *)
(* [raised |-> TRUE] when the assertion on the two lengths fails.          *)
(***************************************************************************)
MaxBoxes == 3     \* most ground-truth boxes annotated for one segment
MaxGt    == 2     \* largest max_gt_box

get_gt_annots(c, caption_dct) ==
    LET gt_bboxs == MatF32([i \in 1..Len(caption_dct.bbox) |->
                              [k \in 1..4 |-> Fl(caption_dct.bbox[i][k])]])
        gt_frms  == [i \in 1..Len(caption_dct.frm_idx) |->
                              <<RoundF32(Fl(caption_dct.frm_idx[i]))>>]
    IN  IF Len(gt_bboxs) # Len(gt_frms)
        THEN [raised |-> TRUE]
        ELSE LET num_box    == Len(gt_bboxs)
                 gt_bboxs_t == [i \in 1..num_box |-> gt_bboxs[i] \o gt_frms[i]]
             IN  [raised          |-> FALSE,
                  padded_gt_bboxs |->
                      pad_words_with_vocab(gt_bboxs_t, c.max_gt_box, <<Zeros(5)>>),
                  padded_gt_box_mask |->
                      pad_words_with_vocab(Ones(num_box), c.max_gt_box, <<0>>),
                  num_box         |-> num_box]

(***************************************************************************)
(* AnetEntDataset.get_features: the region features of the segment (the    *)
(* stored array reshaped to one row per proposal).  Raises when the row    *)
(* count differs from num_proposals.                                       *)
(***************************************************************************)
get_features_NoAssert(c, st, idx, num_proposals, props) ==
    [raised |-> FALSE, region_feature |-> st.region_feature[idx + 1]]

get_features(c, st, idx, num_proposals, props) ==
    LET region_feature == st.region_feature[idx + 1] IN
    IF num_proposals # Len(region_feature)
    THEN [raised |-> TRUE]
    ELSE [raised |-> FALSE,
          region_feature |->
             IF c.add_prop_to_region
             THEN [i \in 1..Len(region_feature) |->
                      region_feature[i] \o SubSeq(props[i], 1, 5)]
             ELSE region_feature]

(***************************************************************************)
(* AnetEntDataset.get_frm_mask: TRUE where the proposal and the box lie in *)
(* different frames.                                                       *)
(***************************************************************************)
get_frm_mask_Eq(proposals, gt_bboxs) ==
    [i \in 1..Len(proposals) |->
        [j \in 1..Len(gt_bboxs) |-> proposals[i] = gt_bboxs[j]]]

get_frm_mask(proposals, gt_bboxs) ==
    [i \in 1..Len(proposals) |->
        [j \in 1..Len(gt_bboxs) |-> proposals[i] # gt_bboxs[j]]]

Column(rows, k) == [i \in 1..Len(rows) |-> rows[i][k]]
BoolBit(b) == IF b THEN 1 ELSE 0

(***************************************************************************)
(* AnetEntDataset.simple_item_getter: the example dict of annotation row   *)
(* idx, or [raised |-> TRUE] when get_features or get_gt_annots raises.    *)
(***************************************************************************)
simple_item_getter(c, st, idx) ==
    LET row   == st.annots[idx + 1]
        props == get_props(c, st, row.Index)
        padded_props == props.padded_props
        num_props    == props.num_props
        feats == get_features(c, st, idx, num_props, padded_props)
        gt_annot_dict == get_gt_annots(c, st.anet_ent_captions[idx + 1])
    IN  IF feats.raised THEN [raised |-> TRUE, at |-> "get_features"]
        ELSE IF gt_annot_dict.raised THEN [raised |-> TRUE, at |-> "get_gt_annots"]
        ELSE
        LET pad_gt_bboxs == gt_annot_dict.padded_gt_bboxs
            num_box      == gt_annot_dict.num_box
            frm_mask     == get_frm_mask(
                                Column(PyPrefix(padded_props, num_props), ColFrm),
                                Column(PyPrefix(pad_gt_bboxs, num_box), ColFrm))
            \* np.ones((max_proposals, max_gt_box)); [:num_props, :num_box] = frm_mask
            pad_frm_mask == [i \in 1..c.max_proposals |->
                               [j \in 1..c.max_gt_box |->
                                  IF i <= Len(frm_mask) /\ j <= Len(frm_mask[i])
                                  THEN BoolBit(frm_mask[i][j]) ELSE 1]]
            region_feature == feats.region_feature
            fdim == IF c.add_prop_to_region THEN 6 ELSE 1
            pad_region_feature ==
                [i \in 1..c.max_proposals |->
                    IF i <= num_props THEN VecF32(region_feature[i]) ELSE Zeros(fdim)]
        IN  [raised |-> FALSE, out_dict |->
            [num_props          |-> num_props,
             num_box            |-> num_box,
             pad_proposals      |-> MatF32(padded_props),
             pad_gt_bboxs       |-> MatF32(pad_gt_bboxs),
             pad_gt_box_mask    |-> gt_annot_dict.padded_gt_box_mask,
             idx                |-> idx,
             ann_idx            |-> idx,
             pad_region_feature |-> pad_region_feature,
             pad_frm_mask       |-> pad_frm_mask,
             pad_pnt_mask       |-> props.padded_mask]]

(***************************************************************************)
(* The store of the single-example specification: one annotation row whose *)
(* proposals and boxes lie in frame 0 or 1, whose frame-index list may be  *)
(* one longer than its box list (frmExtra) and whose region-feature array  *)
(* may hold one row more than there are proposals (featExtra).             *)
(***************************************************************************)
RegionFeature(n) == [i \in 1..n |-> <<Fl(i)>>]

InitItem ==
    /\ pc = "ready"
    /\ call = [op |-> "none"]
    /\ loc = None
    /\ ret = None
    /\ \E nf \in 1..MaxFrms, np \in 1..MaxPpf, mgb \in 1..MaxGt :
          cfg = SetArgs(nf, np, ConfMid, FALSE, mgb, FALSE)
    /\ \E rows \in SeqUpTo({ <<Fl(10), Fl(20), Fl(30), Fl(40), Fl(0), Fl(3), ConfHi>>,
                             <<Fl(12), Fl(22), Fl(32), Fl(42), Fl(1), Fl(3), ConfHi>> },
                           MaxDets),
          frms \in SeqUpTo({0, 1}, MaxBoxes),
          featExtra \in 0..1, frmExtra \in 0..1 :
          store = [num_proposals   |-> <<Len(rows)>>,
                   label_proposals |-> <<rows>>,
                   annots          |-> <<[Index |-> 0]>>,
                   region_feature  |->
                      <<RegionFeature(Min(Len(rows), cfg.max_proposals) + featExtra)>>,
                   anet_ent_captions |->
                      <<[bbox    |-> [i \in 1..Max(Len(frms) - frmExtra, 0) |->
                                         <<5, 6, 50, 60>>],
                         frm_idx |-> frms]>>]

GetGtAnnotsCall ==
    /\ pc = "ready"
    /\ call' = [op |-> "get_gt_annots", idx |-> 0]
    /\ LET r == get_gt_annots(cfg, store.anet_ent_captions[1]) IN
          /\ ret' = r
          /\ pc' = IF r.raised THEN "raised" ELSE "done"
    /\ UNCHANGED <<cfg, store, loc>>

SimpleItemGetterCall ==
    /\ pc = "ready"
    /\ call' = [op |-> "simple_item_getter", idx |-> 0]
    /\ LET r == simple_item_getter(cfg, store, 0) IN
          /\ ret' = IF r.raised THEN r ELSE r.out_dict
          /\ pc' = IF r.raised THEN "raised" ELSE "done"
    /\ UNCHANGED <<cfg, store, loc>>

NextItem == GetGtAnnotsCall \/ SimpleItemGetterCall \/ Return

SpecItem == InitItem /\ [][NextItem]_vars


(***************************************************************************)
(* C4: get_frm_mask(p, g)[i][j] is true exactly when p[i] != g[j]; and in  *)
(* the pad_frm_mask of simple_item_getter (max_proposals x max_gt_box)     *)
(* entry (i, j) is (frame of proposal i != frame of box j) for             *)
(* i < num_props and j < num_box, and 1 for every other entry.             *)
(***************************************************************************)
C4_FrameMask ==
    (pc = "done" /\ call.op = "simple_item_getter") =>
        LET p == Column(ret.pad_proposals, ColFrm)
            g == Column(ret.pad_gt_bboxs, ColFrm)
            m == get_frm_mask(p, g)
        IN  /\ Len(m) = Len(p)
            /\ \A i \in 1..Len(p) :
                  /\ Len(m[i]) = Len(g)
                  /\ \A j \in 1..Len(g) : m[i][j] <=> (p[i] # g[j])
            /\ Len(ret.pad_frm_mask) = cfg.max_proposals
            /\ \A i \in 1..cfg.max_proposals :
                  /\ Len(ret.pad_frm_mask[i]) = cfg.max_gt_box
                  /\ \A j \in 1..cfg.max_gt_box :
                        ret.pad_frm_mask[i][j] =
                           IF i <= ret.num_props /\ j <= ret.num_box
                           THEN BoolBit(p[i] # g[j])
                           ELSE 1

\* A real proposal matches a box of its frame (0), differs from a box of the
\* other frame, and a padding proposal row (frame 0 too) is marked non-match.
C4_Witness ==
    /\ pc = "done"
    /\ call.op = "simple_item_getter"
    /\ cfg.max_proposals = 2
    /\ cfg.max_gt_box = 2
    /\ ret.num_props = 1
    /\ ret.num_box = 2
    /\ ret.pad_frm_mask = << <<0, 1>>, <<1, 1>> >>

(***************************************************************************)
(* C5: for every caption record with as many frame indices as boxes,       *)
(* get_gt_annots returns max_gt_box padded boxes and mask entries, a       *)
(* num_box <= max_gt_box, and a mask with 1 on the first num_box positions *)
(* and 0 after, so that the mask sums to num_box.                          *)
(***************************************************************************)
C5_GtInvariant ==
    (pc = "done" /\ call.op = "get_gt_annots") =>
        /\ Len(ret.padded_gt_bboxs) = cfg.max_gt_box
        /\ Len(ret.padded_gt_box_mask) = cfg.max_gt_box
        /\ ret.num_box <= cfg.max_gt_box
        /\ SumSeq(ret.padded_gt_box_mask) = ret.num_box
        /\ \A j \in 1..cfg.max_gt_box :
              ret.padded_gt_box_mask[j] = BoolBit(j <= ret.num_box)


(***************************************************************************)
(* AV_CS.after_init: the fields the contrastive-sampling class derives     *)
(* from the configuration.  [failed |-> TRUE] stands for the assertion /   *)
(* NotImplementedError raised for a value outside the allowed sets.        *)
(***************************************************************************)
after_init(base, split_type, sample, nvids_sample, conc_type, cs_shuffle) ==
    IF split_type \notin {"train", "valid", "test"} THEN [failed |-> TRUE]
    ELSE IF split_type = "train" /\ sample \notin {"ds4", "random", "ds4_random"}
    THEN [failed |-> TRUE]
    ELSE IF split_type # "train" /\ sample \notin {"ds4", "random"}
    THEN [failed |-> TRUE]
    ELSE IF conc_type \notin {"spat", "temp", "sep", "svsq"} THEN [failed |-> TRUE]
    ELSE [failed |-> FALSE] @@ base @@
         [split_type  |-> split_type,
          sample_type |-> sample,
          more_idx_collector |->
             CASE sample = "random"     -> "get_random_more_idx"
               [] sample = "ds4"        -> "get_cs_more_idxs"
               [] sample = "ds4_random" -> "get_cs_and_random_more_idx",
          cs_nvids_sample |-> IF conc_type = "svsq" THEN 1 ELSE nvids_sample,
          conc_type   |-> conc_type,
          itemgetter  |->
             CASE conc_type = "spat" -> "verb_item_getter_SPAT"
               [] conc_type = "temp" -> "verb_item_getter_TEMP"
               [] OTHER              -> "verb_item_getter_SEP",
          append_everywhere |-> conc_type \in {"sep", "svsq"},
          cs_shuffle  |-> cs_shuffle]

(***************************************************************************)
(* Candidate mappings.  An ordered dict argument-name -> candidate list is *)
(* a sequence of [arg, ids] records; a candidate list holds row indices or *)
(* the sentinel -1 (no candidate) and is not empty.  create_similar_list   *)
(* and create_random_list (contrastive_sampling) may return any of them.   *)
(***************************************************************************)
MaxCand  == 2     \* longest candidate list of one argument name
MaxNvids == 3     \* largest cs_nvids_sample
MaxPass  == 4     \* passes of the train gathering loop that are followed

ArgNames == <<"ARG0", "ARG1">>

CandidateMappings ==
    UNION { { [i \in 1..k |-> [arg |-> ArgNames[i], ids |-> f[i]]] :
                f \in [1..k -> SeqUpTo({-1, 1, 2}, MaxCand) \ {<<>>}] } : k \in 0..Len(ArgNames) }

create_similar_list == CandidateMappings
create_random_list  == CandidateMappings

\* the injective sequences of n positions of 1..m (a draw without replacement)
Draws(m, n) == {f \in [1..n -> 1..m] : \A i, j \in 1..n : f[i] = f[j] => i = j}

TruncateKeys_None(c, more_idxs) == { more_idxs }

\* lines 990-996 / 1016-1022 (train) and 1002-1005 / 1027-1030 (valid, test):
\* the mappings the selector may return when the source mapping is more_idxs.
TruncateKeys(c, more_idxs) ==
    IF Len(more_idxs) > c.cs_nvids_sample - 1
    THEN LET n == Min(Len(more_idxs), c.cs_nvids_sample - 1) IN
         IF c.split_type = "train"
         THEN { [i \in 1..n |-> more_idxs[f[i]]] : f \in Draws(Len(more_idxs), n) }
         ELSE { SubSeq(more_idxs, 1, n) }
    ELSE { more_idxs }

\* AV_CS.get_random_more_idx
get_random_more_idx(c, st, idx) ==
    IF c.split_type = "train"
    THEN UNION { TruncateKeys(c, m) : m \in create_random_list }
    ELSE TruncateKeys(c, st.srl_annots[idx + 1].RandDS4_Inds)

\* AV_CS.get_cs_more_idxs
get_cs_more_idxs(c, st, idx) ==
    IF c.split_type = "train"
    THEN UNION { TruncateKeys(c, m) : m \in create_similar_list }
    ELSE TruncateKeys(c, st.srl_annots[idx + 1].DS4_Inds)

\* AV_CS.get_cs_and_random_more_idx: either one, by a fair coin
get_cs_and_random_more_idx(c, st, idx) ==
    get_random_more_idx(c, st, idx) \cup get_cs_more_idxs(c, st, idx)

\* the set of mappings self.more_idx_collector(idx) may return
more_idx_collector(c, st, idx) ==
    CASE c.more_idx_collector = "get_random_more_idx" -> get_random_more_idx(c, st, idx)
      [] c.more_idx_collector = "get_cs_more_idxs"    -> get_cs_more_idxs(c, st, idx)
      [] c.more_idx_collector = "get_cs_and_random_more_idx" ->
            get_cs_and_random_more_idx(c, st, idx)

lemma_verb(st, ix) == st.srl_annots[ix + 1].lemma_verb

(***************************************************************************)
(* One execution of the loop "for arg_name, arg_ids in more_idxs.items()"  *)
(* of verb_item_getter_nvid (lines 1380-1388 and 1392-1400), from key k    *)
(* on.  l holds new_idxs, verb_cmp, verb_list; raised is the IndexError of *)
(* arg_ids[cons].                                                          *)
(***************************************************************************)
RECURSIVE GatherFor_First(_, _, _, _, _, _)
GatherFor_First(c, st, more_idxs, cons, k, l) ==
    IF k > Len(more_idxs) \/ l.raised THEN l
    ELSE IF Len(l.new_idxs) < c.cs_nvids_sample /\ more_idxs[k].ids[1] # -1
    THEN LET new_verb == lemma_verb(st, more_idxs[k].ids[1]) IN
         GatherFor_First(c, st, more_idxs, cons, k + 1,
           [l EXCEPT !.new_idxs  = @ \o <<more_idxs[k].ids[1]>>,
                     !.verb_cmp  = @ \o <<BoolBit(new_verb = l.curr_verb)>>,
                     !.verb_list = @ \o <<new_verb>>])
    ELSE GatherFor_First(c, st, more_idxs, cons, k + 1, l)

RECURSIVE GatherFor(_, _, _, _, _, _)
GatherFor(c, st, more_idxs, cons, k, l) ==
    IF k > Len(more_idxs) \/ l.raised THEN l
    ELSE IF Len(l.new_idxs) < c.cs_nvids_sample
    THEN LET arg_ids == more_idxs[k].ids IN
         IF cons + 1 > Len(arg_ids)
         THEN [l EXCEPT !.raised = TRUE]
         ELSE LET arg_id_to_append == arg_ids[cons + 1] IN
              IF arg_id_to_append # -1
              THEN LET new_verb == lemma_verb(st, arg_id_to_append) IN
                   GatherFor(c, st, more_idxs, cons, k + 1,
                     [l EXCEPT !.new_idxs  = @ \o <<arg_id_to_append>>,
                               !.verb_cmp  = @ \o <<BoolBit(new_verb = l.curr_verb)>>,
                               !.verb_list = @ \o <<new_verb>>])
              ELSE GatherFor(c, st, more_idxs, cons, k + 1, l)
    ELSE GatherFor(c, st, more_idxs, cons, k + 1, l)

(***************************************************************************)
(* AnetVerbDataset.get_srl_anns.  An SRL row holds req_pat_ix (a list of   *)
(* <<argument name, word indices>>), words, tags, process_idx2 (lists of   *)
(* the indices of the visual words) and req_cls_pats_mask (a list of       *)
(* <<argument name, box validity, box indices>>).  A vocabulary is a       *)
(* function from its words to indices that has an entry UNK.  The          *)
(* configuration gives srl_arg_len, seq_length, box_per_srl_arg and        *)
(* include_srl_args.                                                       *)
(***************************************************************************)
MaxArgs == 3      \* most arguments of one SRL frame

\* vocs[w] if w in vocs else vocs[unk_word]
VocIndex(voc, w) == IF w \in DOMAIN voc THEN voc[w] ELSE voc["UNK"]

word_to_int_vocab_PadLen(words, voc, pad_len) ==
    LET out_list == pad_words_with_vocab(
                        [i \in 1..Len(words) |-> VocIndex(voc, words[i])], pad_len, <<1>>)
    IN  <<out_list, Len(out_list)>>

\* lines 521-544: <<padded indices, number of words before padding>>
word_to_int_vocab(words, voc, pad_len) ==
    LET out_list == [i \in 1..Len(words) |-> VocIndex(voc, words[i])]
        curr_len == Len(out_list)
    IN  <<pad_words_with_vocab(out_list, pad_len, <<1>>), curr_len>>

\* python: lst.index(x), 0-based
ListIndex(lst, x) ==
    (CHOOSE i \in 1..Len(lst) : lst[i] = x /\ \A j \in 1..(i - 1) : lst[j] # x) - 1

ArangeFrom_Local(a, b) == [i \in 1..Max(b - a, 0) |-> i - 1]

\* torch.arange(a, b) as a list
ArangeFrom(a, b) == [i \in 1..Max(b - a, 0) |-> a + i - 1]

CumSum0_NoZero(v) == [i \in 1..(Len(v) + 1) |-> SumSeq(SubSeq(v, 1, Min(i, Len(v))))]

\* [0] + torch.cumsum(v).tolist()
CumSum0(v) == [i \in 1..(Len(v) + 1) |-> SumSeq(SubSeq(v, 1, i - 1))]

VerbIndInSrl_NoFallback(srl_args, srl_arg_len) == ListIndex(srl_args, "V")

\* lines 583-585, after the assertion that V is among the arguments
VerbIndInSrl(srl_args, srl_arg_len) ==
    LET verb_ind_in_srl == ListIndex(srl_args, "V") IN
    IF ~(verb_ind_in_srl <= srl_arg_len - 1) THEN 0 ELSE verb_ind_in_srl

SrlBoxesOf_IgnoreFlag(c, s1, indicator) ==
    LET mult == Min(Len(s1), c.box_per_srl_arg)
        s11  == [x_ix \in 1..Len(s1) |->
                    IF x_ix - 1 < c.box_per_srl_arg THEN s1[x_ix] ELSE 0]
    IN  [boxes |-> pad_words_with_vocab(s11, c.box_per_srl_arg, <<0>>),
         lens  |-> pad_words_with_vocab(Ones(mult), c.box_per_srl_arg, <<0>>)]

\* lines 694-720: the box links of one argument and their validity
SrlBoxesOf(c, s1, indicator) ==
    LET mult == IF indicator = 1 THEN Min(Len(s1), c.box_per_srl_arg) ELSE 0
        s11  == [x_ix \in 1..Len(s1) |->
                    IF x_ix - 1 < c.box_per_srl_arg THEN s1[x_ix] ELSE 0]
    IN  [boxes |-> pad_words_with_vocab(s11, c.box_per_srl_arg, <<0>>),
         lens  |-> pad_words_with_vocab(Ones(mult), c.box_per_srl_arg, <<0>>)]

get_srl_anns(c, st, srl_row) ==
    LET vis_set        == c.include_srl_args
        req_pat_ix     == srl_row.req_pat_ix
        srl_args       == [i \in 1..Len(req_pat_ix) |-> req_pat_ix[i][1]]
        srl_words_inds == [i \in 1..Len(req_pat_ix) |-> req_pat_ix[i][2]]
        srl_args_visual_msk ==
            pad_words_with_vocab([i \in 1..Len(srl_args) |-> BoolBit(srl_args[i] \in vis_set)],
                                 c.srl_arg_len, <<0>>)
        srl_arg_words  == [i \in 1..Len(srl_words_inds) |->
                             [j \in 1..Len(srl_words_inds[i]) |->
                                 srl_row.words[srl_words_inds[i][j] + 1]]]
        srl_arg_words_conc_ix == Concat(srl_words_inds)
        tag_seq        == [i \in 1..Len(srl_arg_words_conc_ix) |->
                             srl_row.tags[srl_arg_words_conc_ix[i] + 1]]
        tag_word_ind   == word_to_int_vocab(tag_seq, st.arg_tag_vocab, c.seq_length)[1]
    IN  IF ~(\E i \in 1..Len(srl_args) : srl_args[i] = "V")
        THEN [raised |-> TRUE, at |-> "assert 'V' in srl_args"]
        ELSE
        LET verb_ind_in_srl == VerbIndInSrl(srl_args, c.srl_arg_len)
            arg_inds_len    == word_to_int_vocab(srl_args, st.arg_vocab, c.srl_arg_len)
            srl_arg_inds    == arg_inds_len[1]
            srl_arg_len     == IF arg_inds_len[2] > c.srl_arg_len
                               THEN c.srl_arg_len ELSE arg_inds_len[2]
            defm            == <<ListTimes(<<1>>, c.seq_length), 0>>
            srl_arg_words_ind_length ==
                pad_words_with_vocab(
                    [i \in 1..Len(srl_arg_words) |->
                        word_to_int_vocab(srl_arg_words[i], st.wtoi, c.seq_length)],
                    c.srl_arg_len, <<defm>>)
            srl_arg_words_ind    == [i \in 1..Len(srl_arg_words_ind_length) |->
                                        srl_arg_words_ind_length[i][1]]
            srl_arg_words_length == [i \in 1..Len(srl_arg_words_ind_length) |->
                                        srl_arg_words_ind_length[i][2]]
            srl_arg_words_list ==
                Concat([i \in 1..Len(srl_arg_words_length) |->
                          ArangeFrom((i - 1) * c.seq_length,
                                     (i - 1) * c.seq_length + srl_arg_words_length[i])])
            srl_arg_words_mask ==
                pad_words_with_vocab(srl_arg_words_list, c.seq_length, <<-1>>)
            srl_arg_word_list_tmp == CumSum0(srl_arg_words_length)
            srl_arg_words_capture ==
                [i \in 1..Len(srl_arg_words_length) |->
                    IF srl_arg_words_length[i] > 0
                    THEN <<Min(srl_arg_word_list_tmp[i], c.seq_length - 1),
                           Min(srl_arg_word_list_tmp[i + 1] - 1, c.seq_length - 1)>>
                    ELSE <<0, 0>>]
            kept_inds == PyPrefix(srl_words_inds, c.srl_arg_len)
            srl_arg_words_map_inv ==
                pad_words_with_vocab(
                    Concat([y_ix \in 1..Len(kept_inds) |->
                               [j \in 1..Len(kept_inds[y_ix]) |-> y_ix - 1]]),
                    c.seq_length, <<0>>)
            seq_cnt == SumSeq(srl_arg_words_length)
            srl_arg_words_binary_mask ==
                pad_words_with_vocab(
                    [i \in 1..Len(srl_arg_words) |->
                        pad_words_with_vocab(Ones(seq_cnt), c.seq_length, <<0>>)],
                    c.srl_arg_len, <<Zeros(c.seq_length)>>)
            vis_idxs_set ==
                UNION { {srl_row.process_idx2[i][j] : j \in 1..Len(srl_row.process_idx2[i])} :
                          i \in 1..Len(srl_row.process_idx2) }
            srl_vis_words_binary_mask ==
                pad_words_with_vocab(
                    [i \in 1..Len(srl_arg_words_conc_ix) |->
                        BoolBit(srl_arg_words_conc_ix[i] \in vis_idxs_set)],
                    c.seq_length, <<0>>)
            pats == srl_row.req_cls_pats_mask
            srl_arg_box_indicator == [i \in 1..Len(pats) |-> pats[i][2]]
            srl_arg_box_inds      == [i \in 1..Len(pats) |-> pats[i][3]]
            per_arg == [i \in 1..Len(pats) |->
                          SrlBoxesOf(c, srl_arg_box_inds[i], srl_arg_box_indicator[i])]
            srl_boxes ==
                pad_words_with_vocab([i \in 1..Len(pats) |-> per_arg[i].boxes],
                                     c.srl_arg_len, <<Zeros(c.box_per_srl_arg)>>)
            srl_boxes_lens ==
                pad_words_with_vocab([i \in 1..Len(pats) |-> per_arg[i].lens],
                                     c.srl_arg_len, <<Zeros(c.box_per_srl_arg)>>)
            srl_arg_boxes_indicator ==
                pad_words_with_vocab(srl_arg_box_indicator, c.srl_arg_len, <<0>>)
        IN  [raised |-> FALSE,
             out_dict |->
               [srl_tag_word_ind    |-> tag_word_ind,
                srl_args_visual_msk |-> srl_args_visual_msk,
                srl_arg_inds        |-> srl_arg_inds,
                srl_arg_len         |-> srl_arg_len,
                srl_arg_inds_msk    |-> ListTimes(<<1>>, srl_arg_len)
                                        \o ListTimes(<<0>>, c.srl_arg_len - srl_arg_len),
                verb_ind_in_srl     |-> verb_ind_in_srl,
                srl_arg_words_ind   |-> srl_arg_words_ind,
                srl_arg_words_length |-> srl_arg_words_length,
                srl_arg_words_binary_mask |-> srl_arg_words_binary_mask,
                srl_vis_words_binary_mask |-> srl_vis_words_binary_mask,
                srl_arg_word_mask   |-> srl_arg_words_mask,
                srl_arg_word_mask_len |-> Min(SumSeq(srl_arg_words_length), c.seq_length),
                srl_arg_words_capture |-> srl_arg_words_capture,
                srl_arg_words_map_inv |-> srl_arg_words_map_inv,
                srl_boxes           |-> srl_boxes,
                srl_boxes_lens      |-> srl_boxes_lens,
                srl_arg_boxes_mask  |-> srl_arg_boxes_indicator]]

(***************************************************************************)
(* The SRL rows and vocabularies of the SRL specifications: a sentence of  *)
(* five words (the last one out of vocabulary) and frames of up to MaxArgs *)
(* arguments drawn from ARG0, V, ARG1 and ARGM-LOC (not in the argument    *)
(* vocabulary).  ARG0 is linked to three boxes, ARG1 to one.               *)
(***************************************************************************)
SrlVocabs ==
    [arg_vocab     |-> ("UNK" :> 0) @@ ("<pad>" :> 1) @@ ("V" :> 2) @@ ("ARG0" :> 3)
                       @@ ("ARG1" :> 4),
     arg_tag_vocab |-> ("UNK" :> 0) @@ ("<pad>" :> 1) @@ ("B-V" :> 2) @@ ("B-ARG0" :> 3)
                       @@ ("I-ARG0" :> 4) @@ ("B-ARG1" :> 5),
     wtoi          |-> ("UNK" :> 9) @@ ("a" :> 4) @@ ("man" :> 5) @@ ("runs" :> 6)
                       @@ ("fast" :> 7)]

ArgPats ==
    { <<"ARG0", <<0, 1>>>>, <<"V", <<2>>>>, <<"ARG1", <<3>>>>, <<"ARGM-LOC", <<3, 4>>>> }

ClsPat(arg) ==
    CASE arg = "ARG0" -> <<"ARG0", 1, <<0, 1, 2>>>>
      [] arg = "ARG1" -> <<"ARG1", 1, <<1>>>>
      [] OTHER        -> <<arg, 0, <<0>>>>

SrlRow(pats) ==
    [req_pat_ix        |-> pats,
     words             |-> <<"a", "man", "runs", "fast", "zzz">>,
     tags              |-> <<"B-ARG0", "I-ARG0", "B-V", "B-ARG1", "O">>,
     process_idx2      |-> << <<0, 1>>, <<3>> >>,
     req_cls_pats_mask |-> [i \in 1..Len(pats) |-> ClsPat(pats[i][1])]]

SrlArgs(srl_arg_len, seq_length, box_per_srl_arg) ==
    [srl_arg_len      |-> srl_arg_len,
     seq_length       |-> seq_length,
     box_per_srl_arg  |-> box_per_srl_arg,
     include_srl_args |-> {"ARG0", "ARG1", "ARGM-LOC"}]

(***************************************************************************)
(* AnetVerbDataset.collate_dict_list: a dict of per-key stacked lists,     *)
(* padded to pad_len with copies of the first dict's value, and the number *)
(* of dicts given.                                                         *)
(***************************************************************************)
collate_dict_list(dict_list, pad_len) ==
    [out_dict |->
        [k \in DOMAIN dict_list[1] |->
            LET dl_list == [i \in 1..Len(dict_list) |-> dict_list[i][k]]
            IN  pad_words_with_vocab(dl_list, pad_len, <<dl_list[1]>>)],
     num_dl |-> Len(dict_list)]

\* python: [lst[ix] for ix in perm]
shuffle_list_from_perm(lst, perm) == [i \in 1..Len(perm) |-> lst[perm[i] + 1]]

argsort_Same(perm) == perm

\* torch: perm.argsort() of a permutation of 0..n-1
argsort(perm) ==
    [k \in 1..Len(perm) |-> (CHOOSE i \in 1..Len(perm) : perm[i] = k - 1) - 1]

\* torch.randperm(n): any permutation of 0..n-1;  torch.arange(n)
randperm(n) == {p \in [1..n -> 0..(n - 1)] : \A i, j \in 1..n : p[i] = p[j] => i = j}
arange(n)   == [i \in 1..n |-> i - 1]

PadSquare_RowsOnly(m, k) ==
    LET n == Len(m) IN
    [i \in 1..(n + k) |-> [j \in 1..n |-> IF i <= n THEN m[i][j] ELSE 0]]

\* np.pad(m, (0, k), constant 0) of a square matrix m: k zero rows and columns
PadSquare(m, k) ==
    LET n == Len(m) IN
    [i \in 1..(n + k) |-> [j \in 1..(n + k) |->
        IF i <= n /\ j <= n THEN m[i][j] ELSE 0]]


(***************************************************************************)
(* AV_CS.verb_item_getter_nvid from the permutation on (lines 1402-1509).  *)
(* l holds the gathered new_idxs, verb_cmp and verb_list; simple_permute   *)
(* is the permutation drawn.  The result is the collated dict, or          *)
(* [raised |-> TRUE] when building a slot's example raises.                *)
(***************************************************************************)
\* line 1412: the slot where the target index lies after the shuffle
TargCmp_Fwd(simple_permute, simple_permute_inv) == simple_permute[1]

TargCmp(simple_permute, simple_permute_inv) == simple_permute_inv[1]

\* lines 1414-1420: the example of every gathered video, in shuffled order
nvid_items(c, st, l, simple_permute) ==
    LET new_idxs    == shuffle_list_from_perm(l.new_idxs, simple_permute)
        ann_id_list == [i \in 1..Len(new_idxs) |-> st.srl_annots[new_idxs[i] + 1].ann_ind]
    IN  [i \in 1..Len(ann_id_list) |-> simple_item_getter(c, st, ann_id_list[i])]

\* l.simple_permute is the permutation drawn and l.new_items the examples
\* nvid_items built
nvid_compose(c, st, idx, l) ==
    LET simple_permute == l.simple_permute
        simple_permute_inv == argsort(simple_permute)
        targ_cmp  == TargCmp(simple_permute, simple_permute_inv)
        new_idxs  == shuffle_list_from_perm(l.new_idxs, simple_permute)
        verb_cmp  == shuffle_list_from_perm(l.verb_cmp, simple_permute)
        verb_list0 == shuffle_list_from_perm(l.verb_list, simple_permute)
        new_items == l.new_items
    IN  IF \E i \in 1..Len(new_items) : new_items[i].raised
        THEN [raised |-> TRUE, at |-> "simple_item_getter"]
        ELSE IF l.srl.raised THEN l.srl
        ELSE
        LET out_dict_verb_for_idx == l.srl.out_dict
            new_out_dicts ==
                [i \in 1..Len(new_items) |->
                    IF c.append_everywhere
                    THEN out_dict_verb_for_idx @@ new_items[i].out_dict
                    ELSE new_items[i].out_dict]
            coll0     == collate_dict_list(new_out_dicts, c.cs_nvids_sample)
            coll      == IF c.append_everywhere THEN coll0
                         ELSE [coll0 EXCEPT !.out_dict =
                                  collate_dict_list(<<out_dict_verb_for_idx>>, 1).out_dict @@ @]
            num_cmp   == coll.num_dl
            new_srl_idxs_pad == pad_words_with_vocab(new_idxs, c.cs_nvids_sample, <<1>>)
            verb_cmp_pad == pad_words_with_vocab(verb_cmp, c.cs_nvids_sample, <<0>>)
            verb_list == IF Len(verb_list0) > c.cs_nvids_sample
                         THEN PyPrefix(verb_list0, c.cs_nvids_sample) ELSE verb_list0
            nv        == Len(verb_list)
            verb_cross_cmp ==
                PadSquare([i \in 1..nv |-> [j \in 1..nv |->
                              BoolBit(verb_list[i] = verb_list[j])]],
                          c.cs_nvids_sample - nv)
            verb_cross_cmp_msk ==
                PadSquare([i \in 1..nv |-> Ones(nv)], c.cs_nvids_sample - nv)
            num_cmp_arr ==
                PadSquare([i \in 1..num_cmp |-> [j \in 1..num_cmp |-> BoolBit(i = j)]],
                          c.cs_nvids_sample - num_cmp)
            sp_pad == [i \in 1..(c.cs_nvids_sample - num_cmp) |-> num_cmp + i - 1]
            out_dict_verb ==
                [permute       |-> simple_permute \o sp_pad,
                 permute_inv   |-> simple_permute_inv \o sp_pad,
                 target_cmp    |-> targ_cmp,
                 new_srl_idxs  |-> new_srl_idxs_pad,
                 sent_idx      |-> idx,
                 num_cmp       |-> num_cmp,
                 num_cmp_msk   |-> ListTimes(<<1>>, num_cmp)
                                   \o ListTimes(<<0>>, c.cs_nvids_sample - num_cmp),
                 num_cross_cmp_msk  |-> num_cmp_arr,
                 verb_cmp           |-> verb_cmp_pad,
                 verb_cross_cmp     |-> verb_cross_cmp,
                 verb_cross_cmp_msk |-> verb_cross_cmp_msk]
        IN  IF Len(simple_permute \o sp_pad) # c.cs_nvids_sample
            THEN [raised |-> TRUE, at |-> "assert len(simple_permute)"]
            ELSE [raised |-> FALSE, out_dict |-> out_dict_verb @@ coll.out_dict]

(***************************************************************************)
(* The tables of the composer specifications: three SRL rows (0, 1, 2)     *)
(* with lemma verbs run, run, jump over three annotation rows.             *)
(***************************************************************************)
CsLabelProposals ==
    << << <<Fl(10), Fl(20), Fl(30), Fl(40), Fl(0), Fl(3), ConfHi>>,
          <<Fl(12) + 1, Fl(22), Fl(32) + 3, Fl(42), Fl(1), Fl(3), ConfLo>> >>,
       << <<Fl(600), Fl(21), Fl(700) + 2, Fl(41), Fl(1), Fl(5), ConfHi>> >>,
       << <<Fl(100), Fl(25), Fl(300), Fl(45), Fl(0), 0, ConfMid>>,
          <<Fl(101), Fl(26), Fl(301) + 5, Fl(46), Fl(1), Fl(2), ConfHi>> >> >>

CsCaptions ==
    << [bbox |-> << <<5, 6, 50, 60>> >>, frm_idx |-> <<0>>],
       [bbox |-> << <<7, 8, 70, 80>>, <<9, 10, 90, 100>> >>, frm_idx |-> <<1, 0>>],
       [bbox |-> << >>, frm_idx |-> << >>] >>

CsStore(ds4, rand) ==
    [num_proposals   |-> [i \in 1..3 |-> Len(CsLabelProposals[i])],
     label_proposals |-> CsLabelProposals,
     annots          |-> [i \in 1..3 |-> [Index |-> i - 1]],
     region_feature  |-> [i \in 1..3 |->
                            [k \in 1..Len(CsLabelProposals[i]) |-> <<Fl(10 * i + k)>>]],
     anet_ent_captions |-> CsCaptions,
     srl_annots      |->
        << [lemma_verb |-> "run",  ann_ind |-> 2, DS4_Inds |-> ds4, RandDS4_Inds |-> rand]
              @@ SrlRow(<< <<"V", <<2>>>>, <<"ARGM-LOC", <<3, 4>>>> >>),
           [lemma_verb |-> "run",  ann_ind |-> 0, DS4_Inds |-> ds4, RandDS4_Inds |-> rand]
              @@ SrlRow(<< <<"V", <<2>>>> >>),
           [lemma_verb |-> "jump", ann_ind |-> 1, DS4_Inds |-> ds4, RandDS4_Inds |-> rand]
              @@ SrlRow(<< <<"ARG0", <<0, 1>>>>, <<"V", <<2>>>>, <<"ARG1", <<3>>>> >>) >>]
    @@ SrlVocabs

CsBase == SrlArgs(3, 3, 2) @@ SetArgs(2, 1, ConfMid, FALSE, 2, FALSE)

\* Construction of the dataset object for the composer: either split, any
\* number of videos and shuffle flag; in valid the precomputed candidate
\* columns hold any mapping.  The sample policy is the mixed one in train
\* (it calls either selector) and the similarity one in valid.
InitNvid ==
    /\ pc = "ready"
    /\ call = [op |-> "none"]
    /\ loc = None
    /\ ret = None
    /\ \E split_type \in {"train", "valid"} :
         \E sample \in (IF split_type = "train" THEN {"ds4_random"} ELSE {"ds4"}),
            n \in 1..MaxNvids, sh \in BOOLEAN :
            /\ cfg = after_init(CsBase, split_type, sample, n, "sep", sh)
            /\ IF split_type = "train"
               THEN store = CsStore(<<>>, <<>>)
               ELSE \E m \in CandidateMappings : store = CsStore(m, m)

\* verb_item_getter_nvid, lines 1365-1379 / 1391: the selector is called and
\* the gathered lists start with the target.
NvidCall ==
    /\ pc = "ready"
    /\ \E idx \in {0, 2} :
         \E more_idxs \in more_idx_collector(cfg, store, idx) :
            /\ call' = [op |-> "verb_item_getter_nvid", idx |-> idx]
            /\ loc' = [more_idxs |-> more_idxs,
                       new_idxs  |-> <<idx>>,
                       curr_verb |-> lemma_verb(store, idx),
                       verb_cmp  |-> <<1>>,
                       verb_list |-> <<lemma_verb(store, idx)>>,
                       cons      |-> 0,
                       raised    |-> FALSE]
            /\ pc' = IF cfg.split_type = "train" /\ ~(1 < cfg.cs_nvids_sample)
                     THEN "permute" ELSE "gather"
    /\ UNCHANGED <<cfg, store, ret>>

\* One pass over the argument names (train: one turn of the while loop, with
\* its test of what follows; otherwise the single pass).
GatherPass ==
    /\ pc = "gather"
    /\ loc.cons < MaxPass
    /\ \E l \in {GatherFor(cfg, store, loc.more_idxs, loc.cons, 1, loc)} :
          IF l.raised
          THEN /\ pc' = "raised"
               /\ ret' = [raised |-> TRUE, at |-> "arg_ids[cons]"]
               /\ loc' = l
          ELSE /\ ret' = ret
               /\ IF cfg.split_type = "train"
                  THEN /\ loc' = [l EXCEPT !.cons = @ + 1]
                       /\ pc' = IF Len(l.new_idxs) < cfg.cs_nvids_sample
                                THEN "gather" ELSE "permute"
                  ELSE /\ loc' = l
                       /\ pc' = "permute"
    /\ UNCHANGED <<cfg, store, call>>

\* Lines 1402-1509: the permutation is drawn and the example is built.
NvidFinish ==
    /\ pc = "permute"
    /\ call.op = "verb_item_getter_nvid"
    /\ \E simple_permute \in (IF cfg.cs_shuffle THEN randperm(Len(loc.new_idxs))
                              ELSE {arange(Len(loc.new_idxs))}) :
          /\ loc' = [simple_permute |-> simple_permute,
                      new_items |-> nvid_items(cfg, store, loc, simple_permute),
                      srl |-> get_srl_anns(cfg, store, store.srl_annots[call.idx + 1])] @@ loc
          /\ \E r \in {nvid_compose(cfg, store, call.idx, loc')} :
                /\ ret' = IF r.raised THEN r ELSE r.out_dict
                /\ pc' = IF r.raised THEN "raised" ELSE "done"
    /\ UNCHANGED <<cfg, store, call>>

NextNvid == NvidCall \/ GatherPass \/ NvidFinish \/ Return

SpecNvid == InitNvid /\ [][NextNvid]_vars


NvidDone == pc = "done" /\ call.op = "verb_item_getter_nvid"

(***************************************************************************)
(* C6: in every example verb_item_getter_nvid returns (any split, any      *)
(* candidate mapping, shuffle on or off) num_cmp_msk sums to num_cmp and   *)
(* target_cmp is a slot whose verb_cmp flag is 1.                          *)
(***************************************************************************)
C6_ComposerInvariant ==
    NvidDone =>
        /\ SumSeq(ret.num_cmp_msk) = ret.num_cmp
        /\ ret.target_cmp \in 0..(ret.num_cmp - 1)
        /\ ret.verb_cmp[ret.target_cmp + 1] = 1

\* A shuffled example of three videos whose permutation is not its own
\* inverse and in which some slot holds another verb than the target's.
C6_Witness ==
    /\ NvidDone
    /\ cfg.cs_shuffle
    /\ ret.num_cmp = 3
    /\ ret.permute # ret.permute_inv
    /\ ret.target_cmp # 0
    /\ \E i \in 1..3 : ret.verb_cmp[i] = 0

(***************************************************************************)
(* C7: num_cmp <= cs_nvids_sample; every per-slot stacked tensor has       *)
(* cs_nvids_sample slots; every slot below num_cmp has num_cmp_msk = 1;    *)
(* and every slot at a position >= num_cmp has num_cmp_msk = 0 and is      *)
(* padding that carries no video data (no proposal, no box, zero rows).    *)
(***************************************************************************)
SlotKeys ==
    {"num_props", "num_box", "pad_proposals", "pad_gt_bboxs", "pad_gt_box_mask",
     "idx", "ann_idx", "pad_region_feature", "pad_frm_mask", "pad_pnt_mask"}

C7_PaddingSlots ==
    NvidDone =>
        /\ ret.num_cmp <= cfg.cs_nvids_sample
        /\ Len(ret.num_cmp_msk) = cfg.cs_nvids_sample
        /\ \A k \in SlotKeys : Len(ret[k]) = cfg.cs_nvids_sample
        /\ \A i \in 1..cfg.cs_nvids_sample :
              IF i <= ret.num_cmp
              THEN ret.num_cmp_msk[i] = 1
              ELSE /\ ret.num_cmp_msk[i] = 0
                   /\ ret.num_props[i] = 0
                   /\ ret.num_box[i] = 0
                   /\ \A r \in 1..Len(ret.pad_proposals[i]) :
                         ret.pad_proposals[i][r] = Zeros(7)
                   /\ \A r \in 1..Len(ret.pad_gt_bboxs[i]) :
                         ret.pad_gt_bboxs[i][r] = Zeros(5)

(***************************************************************************)
(* C8: whatever mapping the selector returns (no argument name, lists of   *)
(* -1 only, too few candidates), in train and in valid, the access         *)
(* terminates with an example of num_cmp <= cs_nvids_sample: it never      *)
(* raises, and the train gathering loop is never left repeating a pass     *)
(* over a mapping without argument names, which adds nothing.              *)
(***************************************************************************)
C8_InsufficientTolerated ==
    (call.op = "verb_item_getter_nvid") =>
        /\ pc # "raised"
        /\ ~(pc = "gather" /\ loc.cons > 0 /\ loc.more_idxs = <<>>)
        /\ (pc = "done") => ret.num_cmp <= cfg.cs_nvids_sample


(***************************************************************************)
(* BatchCollator.__call__.  A tensor is [shape, data]: its dimensions and  *)
(* its entries in row-major order; torch.stack of equal-shape tensors      *)
(* puts the number of tensors in front of the shape and their entries one  *)
(* after the other.  The loop over the keys of the first example stacks    *)
(* one key after the other.  At a key on whose shape two examples disagree *)
(* the call stops in ForkedPdb().set_trace() (line 1539) with the prompt   *)
(* shown before line 1540 and waits there (pc = "pdb"): it has neither     *)
(* returned nor raised, and what it does next is what the debugger session *)
(* decides.  The session's commands are drawn from: continue, quit (or end *)
(* of input), a jump to the assert of line 1542, and an assignment that    *)
(* overwrites a disagreeing entry by the first example's entry.            *)
(***************************************************************************)
MaxBatch == 3     \* largest batch handed to the collator

RECURSIVE Prod(_)
Prod(v) == IF v = <<>> THEN 1 ELSE v[1] * Prod(Tail(v))

torch_stack(tensors) ==
    [shape |-> <<Len(tensors)>> \o tensors[1].shape,
     data  |-> Concat([b \in 1..Len(tensors) |-> tensors[b].data])]

\* a tensor of the given shape whose entries are all v
Full(shape, v) == [shape |-> shape, data |-> [i \in 1..Prod(shape) |-> v]]

\* example dicts with the same keys; two of the keys come in two shapes
BatchExamples ==
    { [num_cmp      |-> Full(<<>>, v),
       pad_pnt_mask |-> Full(s1, v),
       pad_frm_mask |-> Full(s2, 1 - v)] :
         v \in {0, 1}, s1 \in {<<2>>, <<3>>}, s2 \in {<<2, 1>>, <<2, 2>>} }

\* line 1534: list(batch[0].keys()), the keys in the order the dataset puts
\* them in an example: pad_frm_mask (line 454), pad_pnt_mask (line 456), and
\* num_cmp last (line 1492, merged by the update of line 1507)
all_keys == <<"pad_frm_mask", "pad_pnt_mask", "num_cmp">>

\* line 1538: all([b[k].shape == shape for b in batch])
ShapesAgree(batch, k) ==
    \A b \in 1..Len(batch) : batch[b][k].shape = batch[1][k].shape

\* lines 1542-1544: assert all([len(v) == batch_size ...]) and the return
CollatorFinish(batch, out_dict) ==
    IF \A k \in DOMAIN out_dict : out_dict[k].shape[1] = Len(batch)
    THEN [at |-> "return", out_dict |-> out_dict]
    ELSE [at |-> "assert len(v) == batch_size", out_dict |-> out_dict]

\* lines 1536-1544 from the i-th key on: the loop runs until it stops in the
\* debugger at a key whose shapes disagree, or ends
RECURSIVE CollatorLoop(_, _, _)
CollatorLoop(batch, i, out_dict) ==
    IF i > Len(all_keys) THEN CollatorFinish(batch, out_dict)
    ELSE LET k == all_keys[i] IN
         IF ~ShapesAgree(batch, k)
         THEN [at |-> "pdb", i |-> i, out_dict |-> out_dict]
         ELSE CollatorLoop(batch, i + 1,
                  out_dict @@ (k :> torch_stack([b \in 1..Len(batch) |-> batch[b][k]])))

\* where the call is after running the loop from key i: waiting in the
\* debugger, returned, or ended by the assertion
CollatorGoes(batch, i, out_dict) ==
    \E r \in {CollatorLoop(batch, i, out_dict)} :
       IF r.at = "pdb"
       THEN /\ pc' = "pdb"
            /\ loc' = [batch |-> batch, i |-> r.i, out_dict |-> r.out_dict,
                       line |-> 1540]
            /\ ret' = None
       ELSE IF r.at = "return"
       THEN /\ pc' = "done"
            /\ loc' = None
            /\ ret' = r.out_dict
       ELSE /\ pc' = "raised"
            /\ loc' = None
            /\ ret' = [raised |-> TRUE, at |-> r.at]

\* the call, up to its return or to its first stop in the debugger
BatchCollatorCall ==
    /\ pc = "ready"
    /\ \E n \in 1..MaxBatch :
         \E batch \in [1..n -> BatchExamples] :
            /\ call' = [op |-> "BatchCollator", batch |-> batch]
            /\ CollatorGoes(batch, 1, [k \in {} |-> None])
    /\ UNCHANGED <<cfg, store>>

\* 'c' at the prompt: line 1540 stacks the entries as they are now and raises
\* RuntimeError when their shapes differ, and the loop goes on; after a jump
\* the call goes on from the assert
PdbContinue ==
    /\ pc = "pdb"
    /\ LET batch == loc.batch
           k     == all_keys[loc.i]
       IN  IF loc.line = 1542
           THEN \E r \in {CollatorFinish(batch, loc.out_dict)} :
                   /\ pc' = IF r.at = "return" THEN "done" ELSE "raised"
                   /\ ret' = IF r.at = "return" THEN r.out_dict
                             ELSE [raised |-> TRUE, at |-> r.at]
                   /\ loc' = None
           ELSE IF ShapesAgree(batch, k)
           THEN CollatorGoes(batch, loc.i + 1,
                    loc.out_dict @@
                      (k :> torch_stack([b \in 1..Len(batch) |-> batch[b][k]])))
           ELSE /\ pc' = "raised"
                /\ ret' = [raised |-> TRUE, at |-> "torch.stack"]
                /\ loc' = None
    /\ UNCHANGED <<cfg, store, call>>

\* 'q' or the end of the input at the prompt: bdb.BdbQuit leaves the call
PdbQuit ==
    /\ pc = "pdb"
    /\ pc' = "raised"
    /\ ret' = [raised |-> TRUE, at |-> "bdb.BdbQuit"]
    /\ loc' = None
    /\ UNCHANGED <<cfg, store, call>>

\* 'jump 1542' at the prompt: the next line to run is the assert after the
\* loop, the key at hand and the keys after it are not stacked
PdbJump ==
    /\ pc = "pdb"
    /\ loc.line = 1540
    /\ loc' = [loc EXCEPT !.line = 1542]
    /\ UNCHANGED <<pc, cfg, store, call, ret>>

\* 'batch[b][k] = batch[0][k]' at the prompt, for an example b whose entry
\* disagrees with the first example's
PdbAssign ==
    /\ pc = "pdb"
    /\ loc.line = 1540
    /\ LET k == all_keys[loc.i] IN
       \E b \in 2..Len(loc.batch) :
          /\ loc.batch[b][k].shape # loc.batch[1][k].shape
          /\ loc' = [loc EXCEPT !.batch[b][k] = loc.batch[1][k]]
    /\ UNCHANGED <<pc, cfg, store, call, ret>>

NextCollate ==
    BatchCollatorCall \/ PdbContinue \/ PdbQuit \/ PdbJump \/ PdbAssign \/ Return

SpecCollate == InitIdle /\ [][NextCollate]_vars

\* every example of the batch has, key by key, the shape of the first example
SameShapes(batch) ==
    \A k \in DOMAIN batch[1] : \A b \in 1..Len(batch) :
        batch[b][k].shape = batch[1][k].shape

\* ret is the batch stacked key by key: shape (N, *shape), entries in order
StackedBatch(batch) ==
    LET N == Len(batch) IN
    /\ DOMAIN ret = DOMAIN batch[1]
    /\ \A k \in DOMAIN batch[1] :
          LET size == Prod(batch[1][k].shape) IN
          /\ ret[k].shape = <<N>> \o batch[1][k].shape
          /\ ret[k].shape[1] = N
          /\ Len(ret[k].data) = N * size
          /\ \A b \in 1..N :
                SubSeq(ret[k].data, (b - 1) * size + 1, b * size)
                   = batch[b][k].data

(***************************************************************************)
(* C9: for a batch of N example dicts with the same keys and the same      *)
(* shape per key the collator returns a dict with those keys whose values  *)
(* have shape (N, *original_shape) and hold the examples' entries in batch *)
(* order; when two examples disagree on the shape of a key the call has    *)
(* failed and returns no batch.                                            *)
(***************************************************************************)
C9_Collator ==
    (call.op = "BatchCollator") =>
        IF SameShapes(call.batch)
        THEN pc = "done" /\ StackedBatch(call.batch)
        ELSE pc = "raised"

\* C9, the part about equal shapes: such a call returns the stacked batch.
C9_EqualShapesStacked ==
    (call.op = "BatchCollator" /\ SameShapes(call.batch)) =>
        pc = "done" /\ StackedBatch(call.batch)

\* Three examples of equal shapes were stacked.
C9_Witness ==
    /\ pc = "done"
    /\ call.op = "BatchCollator"
    /\ Len(call.batch) = 3
    /\ call.batch[1] # call.batch[2]
    /\ ret.pad_frm_mask.shape = <<3, 2, 2>>
    /\ ret.num_cmp.shape = <<3>>

\* C9, the part about disagreeing shapes, read for the calls that have ended:
\* none of them returned.  It does not hold: after 'jump 1542' the call
\* returns the keys stacked before the stop, and after the assignments it
\* returns a batch stacked from the overwritten entries.
C9_NeverReturnsOnMismatch ==
    (call.op = "BatchCollator" /\ ~SameShapes(call.batch)) => pc # "done"


(***************************************************************************)
(* The box shifts of verb_item_getter_SPAT and verb_item_getter_TEMP.      *)
(* props is a list of n slots, each a list of rows of pdim float32         *)
(* channels (7 for proposals, 5 for ground-truth boxes).  The offset is    *)
(* added in float32, so the sum is rounded to the nearest float32 value.   *)
(***************************************************************************)
SpatShift == 720
TempShift == 10

\* tensor.view(n, m, ...) of a flat list of n * m rows
View(flat, n, m) == [v \in 1..n |-> SubSeq(flat, (v - 1) * m + 1, v * m)]

reshuffle_boxes_NoTranspose(c, inp_t) == Concat(inp_t)

\* lines 1067-1078: view(n, num_frms, num_prop_per_frm, ..), transpose(0, 1),
\* view(num_frms * n * num_prop_per_frm, ..)
reshuffle_boxes(c, inp_t) ==
    LET n          == Len(inp_t)
        viewed     == [v \in 1..n |-> View(inp_t[v], c.num_frms, c.num_prop_per_frm)]
        transposed == [f \in 1..c.num_frms |-> [v \in 1..n |-> viewed[v][f]]]
    IN  Concat([f \in 1..c.num_frms |-> Concat(transposed[f])])

\* props + delta, where delta is arange(n) * shift on the channels of chans
ShiftedProps(props, shift, chans) ==
    [v \in 1..Len(props) |->
       [r \in 1..Len(props[v]) |->
          [ch \in 1..Len(props[v][r]) |->
             LET delta_msk == IF ch \in chans THEN 1 ELSE 0
                 delta     == RoundF32(RoundF32(Fl((v - 1) * shift)) * delta_msk)
             IN  RoundF32(props[v][r][ch] + delta)]]]

SPAT_process_props_Cols01(c, props, shift, keepdim, reshuffle_box) ==
    LET n         == Len(props)
        num_props == Len(props[1])
        props_new == ShiftedProps(props, shift, {ColX1, ColX1 + 1})
        flat      == IF reshuffle_box THEN reshuffle_boxes(c, props_new)
                     ELSE Concat(props_new)
    IN  IF keepdim THEN View(flat, n, num_props) ELSE flat

SPAT_process_props(c, props, shift, keepdim, reshuffle_box) ==
    LET n         == Len(props)
        num_props == Len(props[1])
        props_new == ShiftedProps(props, shift, {ColX1, ColX2})
        flat      == IF reshuffle_box THEN reshuffle_boxes(c, props_new)
                     ELSE Concat(props_new)
    IN  IF keepdim THEN View(flat, n, num_props) ELSE flat

TEMP_process_props(c, props, shift, keepdim, reshuffle_box) ==
    LET n         == Len(props)
        num_props == Len(props[1])
        props_new == ShiftedProps(props, shift, {ColFrm})
    IN  IF keepdim THEN props_new ELSE Concat(props_new)

\* Rows of one slot: integer-valued pixels, pixels with a fraction, padding.
ShiftRows ==
    { <<Fl(10), Fl(20), Fl(30), Fl(40), Fl(0), Fl(3), ConfHi>>,
      <<Fl(12) + 1, Fl(22) + 1, Fl(700) + 2, Fl(42), Fl(1), Fl(5), ConfLo>>,
      Zeros(7) }

InitShift ==
    /\ pc = "ready"
    /\ call = [op |-> "none"]
    /\ loc = None
    /\ ret = None
    /\ store = None
    /\ \E nf \in {1, 2} :
          cfg = SetArgs(nf, 2 \div nf, ConfMid, FALSE, 2, FALSE)

\* the tensors process_props is applied to: n slots of max_proposals proposal
\* rows, or n slots of max_gt_box box rows
ShiftInputs(n) ==
    { [v \in 1..n |-> [r \in 1..2 |-> SubSeq(m[v][r], 1, pdim)]] :
         m \in [1..n -> [1..2 -> ShiftRows]], pdim \in {5, 7} }

SpatProcessPropsCall ==
    /\ pc = "ready"
    /\ \E n \in 1..MaxNvids :
         \E props \in ShiftInputs(n) :
           \E flags \in {<<FALSE, TRUE>>, <<TRUE, FALSE>>, <<FALSE, FALSE>>} :
              /\ call' = [op |-> "process_props", mode |-> "SPAT", props |-> props,
                          shift |-> SpatShift,
                          keepdim |-> flags[1], reshuffle_box |-> flags[2]]
              /\ ret' = SPAT_process_props(cfg, props, SpatShift, flags[1], flags[2])
    /\ pc' = "done"
    /\ UNCHANGED <<cfg, store, loc>>

TempProcessPropsCall ==
    /\ pc = "ready"
    /\ \E n \in 1..MaxNvids :
         \E props \in ShiftInputs(n) :
           \E keepdim \in BOOLEAN :
              /\ call' = [op |-> "process_props", mode |-> "TEMP", props |-> props,
                          shift |-> TempShift,
                          keepdim |-> keepdim, reshuffle_box |-> FALSE]
              /\ ret' = TEMP_process_props(cfg, props, TempShift, keepdim, FALSE)
    /\ pc' = "done"
    /\ UNCHANGED <<cfg, store, loc>>

NextShift == SpatProcessPropsCall \/ TempProcessPropsCall \/ Return

SpecShift == InitShift /\ [][NextShift]_vars

\* the row of the result that holds row r of slot v of the input
ShiftedRow(v, r) ==
    LET n == Len(call.props)
        R == Len(call.props[1])
        P == cfg.num_prop_per_frm
        f == (r - 1) \div P
        p == (r - 1) % P
        o == IF call.reshuffle_box THEN f * (n * P) + (v - 1) * P + p + 1
             ELSE (v - 1) * R + r
    IN  IF call.keepdim THEN ret[((o - 1) \div R) + 1][((o - 1) % R) + 1] ELSE ret[o]

\* the offset the mode documents for channel ch of slot v
SlotOffset(v, ch) ==
    IF call.mode = "SPAT" /\ ch \in {1, 3} THEN Fl(720 * (v - 1))
    ELSE IF call.mode = "TEMP" /\ ch = 5 THEN Fl(10 * (v - 1))
    ELSE 0

ShiftDone == pc = "done" /\ call.op = "process_props"

Abs(x) == IF x < 0 THEN -x ELSE x

\* C10 as stated: subtracting the offset of the slot recovers every real row
\* exactly, in both modes.
C10_ShiftExact ==
    ShiftDone =>
        \A v \in 1..Len(call.props) : \A r \in 1..Len(call.props[v]) :
            LET row == call.props[v][r] IN
            row # Zeros(Len(row)) =>
                \A ch \in 1..Len(row) :
                    RoundF32(ShiftedRow(v, r)[ch] - SlotOffset(v, ch)) = row[ch]

(***************************************************************************)
(* C10: in SPAT slot v's rows get 720*v added to the x channels 0 and 2,   *)
(* in TEMP 10*v to the frame channel 4, and no other channel changes; the  *)
(* sum is rounded to float32, so subtracting the offset recovers the       *)
(* pre-shift value exactly in slot 0, in every unshifted channel, and      *)
(* wherever value + offset is a float32 value (integer-valued pixels and   *)
(* frame indices); elsewhere it is recovered to within half a float32      *)
(* spacing of the shifted value.                                           *)
(***************************************************************************)
C10_ShiftInvertible ==
    ShiftDone =>
        \A v \in 1..Len(call.props) : \A r \in 1..Len(call.props[v]) :
            LET row == call.props[v][r] IN
            \A ch \in 1..Len(row) :
                LET off  == SlotOffset(v, ch)
                    out  == ShiftedRow(v, r)[ch]
                    back == RoundF32(out - off)
                IN  /\ Len(ShiftedRow(v, r)) = Len(row)
                    /\ (off = 0 => out = row[ch])
                    /\ (RoundF32(row[ch] + off) = row[ch] + off => back = row[ch])
                    /\ (row[ch] % FUnit = 0 => back = row[ch])
                    /\ (call.mode = "TEMP" => back = row[ch])
                    /\ 2 * Abs(back - row[ch]) <= Quantum(Abs(row[ch] + off))

\* Three panels reordered frame-major: the integer-valued row of slot 1 comes
\* back exactly, the fractional x1 of the row of slot 2 does not.
C10_Witness ==
    /\ ShiftDone
    /\ call.mode = "SPAT"
    /\ call.reshuffle_box
    /\ Len(call.props) = 3
    /\ Len(call.props[2][1]) = 7
    /\ call.props[2][1][1] = Fl(10)
    /\ ShiftedRow(2, 1)[1] = Fl(730)
    /\ call.props[3][2][1] = Fl(12) + 1
    /\ ShiftedRow(3, 2)[1] = Fl(1452)
    /\ ShiftedRow(3, 2)[2] = Fl(22) + 1

(***************************************************************************)
(* C11: permute is a permutation of 0..cs_nvids_sample-1 that fixes every  *)
(* padding position (>= num_cmp); permute_inv is its inverse; permute is   *)
(* the identity when shuffling is off; new_srl_idxs, verb_cmp and the      *)
(* video examples are the gathered lists reordered by permute; and the     *)
(* slot target_cmp = permute_inv[0] holds the target index.                *)
(***************************************************************************)
C11_Permutation ==
    NvidDone =>
        LET n  == cfg.cs_nvids_sample
            P  == ret.permute
            Pi == ret.permute_inv
        IN  /\ Len(P) = n /\ Len(Pi) = n
            /\ {P[i] : i \in 1..n} = 0..(n - 1)
            /\ \A i \in 1..n : i > ret.num_cmp => P[i] = i - 1 /\ Pi[i] = i - 1
            /\ \A i \in 1..n : Pi[P[i] + 1] = i - 1 /\ P[Pi[i] + 1] = i - 1
            /\ (~cfg.cs_shuffle => P = arange(n))
            /\ ret.num_cmp = Len(loc.new_idxs)
            /\ \A i \in 1..ret.num_cmp :
                  /\ ret.new_srl_idxs[i] = loc.new_idxs[P[i] + 1]
                  /\ ret.verb_cmp[i] = loc.verb_cmp[P[i] + 1]
                  /\ ret.ann_idx[i] = store.srl_annots[loc.new_idxs[P[i] + 1] + 1].ann_ind
            /\ ret.target_cmp = Pi[1]
            /\ ret.new_srl_idxs[ret.target_cmp + 1] = call.idx

\* Two videos gathered for three slots and swapped: the target sits in slot 1
\* and the padding position 2 is fixed.
C11_Witness ==
    /\ NvidDone
    /\ cfg.cs_shuffle
    /\ cfg.cs_nvids_sample = 3
    /\ ret.num_cmp = 2
    /\ ret.permute = <<1, 0, 2>>
    /\ ret.target_cmp = 1
    /\ ret.new_srl_idxs[1] # call.idx
    /\ ret.new_srl_idxs[2] = call.idx

(***************************************************************************)
(* The candidate selector on its own: self.more_idx_collector(idx) under   *)
(* every split and sample policy after_init accepts.  loc keeps the        *)
(* mapping the selector started from (the one create_random_list /         *)
(* create_similar_list returned, or the stored column).                    *)
(***************************************************************************)
\* the key order of m reversed (a second stored column that differs from m)
ReverseKeys(m) == [i \in 1..Len(m) |-> m[Len(m) + 1 - i]]

AllowedSamples(split_type) ==
    IF split_type = "train" THEN {"ds4", "random", "ds4_random"} ELSE {"ds4", "random"}

\* get_cs_and_random_more_idx picks either function; the others are one
CollectorFns(c) ==
    CASE c.more_idx_collector = "get_random_more_idx" -> {"get_random_more_idx"}
      [] c.more_idx_collector = "get_cs_more_idxs"    -> {"get_cs_more_idxs"}
      [] c.more_idx_collector = "get_cs_and_random_more_idx" ->
            {"get_random_more_idx", "get_cs_more_idxs"}

\* lines 985-989, 1001, 1014-1015, 1026: the mapping before truncation
SourceMappings(c, st, idx, fn) ==
    IF c.split_type = "train"
    THEN (IF fn = "get_random_more_idx" THEN create_random_list ELSE create_similar_list)
    ELSE IF fn = "get_random_more_idx"
         THEN {st.srl_annots[idx + 1].RandDS4_Inds}
         ELSE {st.srl_annots[idx + 1].DS4_Inds}

InitSelect ==
    /\ pc = "ready"
    /\ call = [op |-> "none"]
    /\ loc = None
    /\ ret = None
    /\ \E split_type \in {"train", "valid", "test"} :
         \E sample \in AllowedSamples(split_type), n \in 1..MaxNvids :
            /\ cfg = after_init(CsBase, split_type, sample, n, "sep", FALSE)
            /\ IF split_type = "train"
               THEN store = CsStore(<<>>, <<>>)
               ELSE \E m \in CandidateMappings : store = CsStore(m, ReverseKeys(m))

SelectorCall ==
    /\ pc = "ready"
    /\ \E idx \in {0, 2} :
         \E fn \in CollectorFns(cfg) :
           \E src \in SourceMappings(cfg, store, idx, fn) :
             \E more_idxs \in TruncateKeys(cfg, src) :
                /\ call' = [op |-> "more_idx_collector", idx |-> idx]
                /\ loc' = [fn |-> fn, source |-> src]
                /\ ret' = more_idxs
    /\ pc' = "done"
    /\ UNCHANGED <<cfg, store>>

NextSelect == SelectorCall \/ Return

SpecSelect == InitSelect /\ [][NextSelect]_vars

SelectDone == pc = "done" /\ call.op = "more_idx_collector"

\* C12 as stated: every candidate list of the returned mapping has at most
\* cs_nvids_sample - 1 entries.
C12_ListsTruncated ==
    SelectDone =>
        \A i \in 1..Len(ret) : Len(ret[i].ids) <= cfg.cs_nvids_sample - 1

(***************************************************************************)
(* C12: the selector returns a mapping with at most cs_nvids_sample - 1    *)
(* argument names, each with its candidate list as it was (lists are not   *)
(* shortened); a mapping that already fits is returned whole; in eval the  *)
(* kept names are the first ones of the stored mapping, in order, and in   *)
(* train they are names of the generated mapping drawn without             *)
(* replacement.                                                            *)
(***************************************************************************)
C12_KeysTruncated ==
    SelectDone =>
        LET src == loc.source
            k   == cfg.cs_nvids_sample - 1
        IN  /\ Len(ret) = Min(Len(src), k)
            /\ ret \in TruncateKeys(cfg, src)
            /\ \A i \in 1..Len(ret) : \E j \in 1..Len(src) : ret[i] = src[j]
            /\ \A i, j \in 1..Len(ret) : ret[i].arg = ret[j].arg => i = j
            /\ (Len(src) <= k => ret = src)
            /\ (cfg.split_type # "train" =>
                   /\ ret \in more_idx_collector(cfg, store, call.idx)
                   /\ ret = SubSeq(src, 1, Len(ret))
                   /\ src = (IF loc.fn = "get_random_more_idx"
                             THEN store.srl_annots[call.idx + 1].RandDS4_Inds
                             ELSE store.srl_annots[call.idx + 1].DS4_Inds))

\* An eval split keeps the first of two stored argument names, whose list of
\* two candidates is returned whole although cs_nvids_sample - 1 = 1.
C12_Witness ==
    /\ SelectDone
    /\ cfg.split_type = "valid"
    /\ cfg.cs_nvids_sample = 2
    /\ Len(loc.source) = 2
    /\ Len(ret) = 1
    /\ ret[1] = loc.source[1]
    /\ Len(ret[1].ids) = 2

InitSrl ==
    /\ pc = "ready"
    /\ call = [op |-> "none"]
    /\ loc = None
    /\ ret = None
    /\ store = SrlVocabs
    /\ \E L \in 1..MaxArgs, Sq \in {1, 2, 3, 5} : cfg = SrlArgs(L, Sq, 2)

GetSrlAnnsCall ==
    /\ pc = "ready"
    /\ \E srl_row \in { SrlRow(pats) : pats \in SeqUpTo(ArgPats, MaxArgs) \ {<<>>} } :
          /\ call' = [op |-> "get_srl_anns", srl_row |-> srl_row]
          /\ LET r == get_srl_anns(cfg, store, srl_row) IN
                /\ ret' = IF r.raised THEN r ELSE r.out_dict
                /\ pc' = IF r.raised THEN "raised" ELSE "done"
    /\ UNCHANGED <<cfg, store, loc>>

NextSrl == GetSrlAnnsCall \/ Return

SpecSrl == InitSrl /\ [][NextSrl]_vars

SrlDone == pc = "done" /\ call.op = "get_srl_anns"

\* the argument names of the frame of the current call
CallArgs == [i \in 1..Len(call.srl_row.req_pat_ix) |-> call.srl_row.req_pat_ix[i][1]]

\* the 0-based position of the first argument tagged V, or -1
VerbPos ==
    IF \E i \in 1..Len(CallArgs) : CallArgs[i] = "V"
    THEN (CHOOSE i \in 1..Len(CallArgs) :
             CallArgs[i] = "V" /\ \A j \in 1..(i - 1) : CallArgs[j] # "V") - 1
    ELSE -1

(***************************************************************************)
(* C13: for a frame with k arguments every per-argument output has         *)
(* srl_arg_len slots; the slots below min(k, srl_arg_len) hold the         *)
(* arguments' data in their order; every slot at a position >= k holds the *)
(* filler (argument index 1, no words, masks 0, no box); the reported      *)
(* srl_arg_len is min(k, srl_arg_len) and srl_arg_inds_msk has that many   *)
(* 1s, first; verb_ind_in_srl is the position of V when it is below        *)
(* srl_arg_len and 0 otherwise.                                            *)
(***************************************************************************)
C13_SrlEncoding ==
    SrlDone =>
        LET row == call.srl_row
            k   == Len(row.req_pat_ix)
            L   == cfg.srl_arg_len
            m   == Min(k, L)
        IN  /\ \A key \in {"srl_args_visual_msk", "srl_arg_inds", "srl_arg_inds_msk",
                           "srl_arg_words_ind", "srl_arg_words_length",
                           "srl_arg_words_binary_mask", "srl_arg_words_capture",
                           "srl_boxes", "srl_boxes_lens", "srl_arg_boxes_mask"} :
                  Len(ret[key]) = L
            /\ \A i \in 1..m :
                  LET inds == row.req_pat_ix[i][2] IN
                  /\ ret.srl_arg_inds[i] = VocIndex(store.arg_vocab, CallArgs[i])
                  /\ ret.srl_args_visual_msk[i] = BoolBit(CallArgs[i] \in cfg.include_srl_args)
                  /\ ret.srl_arg_words_length[i] = Len(inds)
                  /\ Len(ret.srl_arg_words_ind[i]) = cfg.seq_length
                  /\ \A j \in 1..Min(Len(inds), cfg.seq_length) :
                        ret.srl_arg_words_ind[i][j] = VocIndex(store.wtoi, row.words[inds[j] + 1])
                  /\ ret.srl_arg_boxes_mask[i] = row.req_cls_pats_mask[i][2]
                  /\ Len(ret.srl_boxes[i]) = cfg.box_per_srl_arg
                  /\ \A b \in 1..Min(Len(row.req_cls_pats_mask[i][3]), cfg.box_per_srl_arg) :
                        /\ ret.srl_boxes[i][b] = row.req_cls_pats_mask[i][3][b]
                        /\ ret.srl_boxes_lens[i][b] = row.req_cls_pats_mask[i][2]
            /\ \A i \in (k + 1)..L :
                  /\ ret.srl_arg_inds[i] = 1
                  /\ ret.srl_args_visual_msk[i] = 0
                  /\ ret.srl_arg_words_length[i] = 0
                  /\ ret.srl_arg_words_ind[i] = Ones(cfg.seq_length)
                  /\ ret.srl_arg_words_binary_mask[i] = Zeros(cfg.seq_length)
                  /\ ret.srl_arg_words_capture[i] = <<0, 0>>
                  /\ ret.srl_arg_boxes_mask[i] = 0
                  /\ ret.srl_boxes[i] = Zeros(cfg.box_per_srl_arg)
                  /\ ret.srl_boxes_lens[i] = Zeros(cfg.box_per_srl_arg)
            /\ ret.srl_arg_len = m
            /\ ret.srl_arg_inds_msk = Ones(m) \o Zeros(L - m)
            /\ ret.verb_ind_in_srl = (IF VerbPos < L THEN VerbPos ELSE 0)
            /\ (CallArgs = <<"V">> =>
                   /\ ret.verb_ind_in_srl = 0
                   /\ ret.srl_arg_inds = <<2>> \o Ones(L - 1)
                   /\ ret.srl_arg_words_length = <<1>> \o Zeros(L - 1))

\* The frame (ARG0, V) encoded into three slots: the verb is slot 1 and slot 2
\* is filler.
C13_Witness ==
    /\ SrlDone
    /\ cfg.srl_arg_len = 3
    /\ CallArgs = <<"ARG0", "V">>
    /\ ret.srl_arg_inds = <<3, 2, 1>>
    /\ ret.srl_arg_len = 2
    /\ ret.srl_arg_inds_msk = <<1, 1, 0>>
    /\ ret.verb_ind_in_srl = 1
    /\ ret.srl_arg_words_length = <<2, 1, 0>>

SrlReturned == call.op = "get_srl_anns" /\ pc \in {"done", "raised"}

\* C15 as stated: a frame with no argument tagged V is encoded with
\* verb_ind_in_srl = 0 and the dictionary is returned.
C15_AbsentVerbDefaults ==
    (SrlReturned /\ VerbPos = -1) => (pc = "done" /\ ret.verb_ind_in_srl = 0)

(***************************************************************************)
(* C15: a frame with no argument tagged V makes get_srl_anns fail on its   *)
(* assertion, and no dictionary is returned; verb_ind_in_srl falls back to *)
(* 0 only when V is present at a position >= srl_arg_len, and then the     *)
(* dictionary is returned.                                                 *)
(***************************************************************************)
C15_AbsentVerbRaises ==
    SrlReturned =>
        /\ (VerbPos = -1 <=> pc = "raised")
        /\ (pc = "raised" => ret = [raised |-> TRUE, at |-> "assert 'V' in srl_args"])
        /\ (VerbPos >= cfg.srl_arg_len => (pc = "done" /\ ret.verb_ind_in_srl = 0))
        /\ (pc = "done" /\ VerbPos < cfg.srl_arg_len => ret.verb_ind_in_srl = VerbPos)

\* The frame (ARG0, ARG1) has no verb: the call has raised.
C15_Witness ==
    /\ SrlReturned
    /\ CallArgs = <<"ARG0", "ARG1">>
    /\ cfg.srl_arg_len = 3
    /\ pc = "raised"
    /\ ret.raised

(***************************************************************************)
(* AV_CS.verb_item_getter: the single example of the annotation row of an  *)
(* SRL row, updated with the SRL encoding of that row.  The store holds    *)
(* one annotation row whose region-feature array may have one row too many *)
(* (featExtra) and whose frame-index list may be one longer than its box   *)
(* list (frmExtra), and one SRL row that may lack the argument V.          *)
(***************************************************************************)
\* lines 1040-1043: the SRL fields, ann_idx and sent_idx added to the example
verb_item_getter_update(srl_row, idx, out, r) ==
    IF out.raised THEN out
    ELSE IF r.raised THEN r
    ELSE [raised |-> FALSE,
          out_dict |-> [ann_idx |-> srl_row.ann_ind, sent_idx |-> idx]
                       @@ r.out_dict @@ out.out_dict]

verb_item_getter(c, st, idx) ==
    LET srl_row == st.srl_annots[idx + 1] IN
    verb_item_getter_update(srl_row, idx, simple_item_getter(c, st, srl_row.ann_ind),
                            get_srl_anns(c, st, srl_row))

InitVerb ==
    /\ pc = "ready"
    /\ call = [op |-> "none"]
    /\ loc = None
    /\ ret = None
    /\ cfg = SrlArgs(2, 3, 2) @@ SetArgs(2, 1, ConfMid, FALSE, 2, FALSE)
    /\ \E featExtra \in 0..1, frmExtra \in 0..1, nbox \in 1..MaxGt,
          pats \in SeqUpTo(ArgPats, MaxArgs) \ {<<>>} :
          store = [num_proposals   |-> <<2>>,
                   label_proposals |-> <<CsLabelProposals[1]>>,
                   annots          |-> <<[Index |-> 0]>>,
                   region_feature  |-> <<RegionFeature(2 + featExtra)>>,
                   anet_ent_captions |->
                      <<[bbox    |-> [i \in 1..nbox |-> <<5, 6, 50, 60>>],
                         frm_idx |-> [i \in 1..(nbox + frmExtra) |-> 0]]>>,
                   srl_annots      |-> <<[ann_ind |-> 0] @@ SrlRow(pats)>>]
                  @@ SrlVocabs

VerbItemGetterCall ==
    /\ pc = "ready"
    /\ call' = [op |-> "verb_item_getter", idx |-> 0]
    /\ loc' = verb_item_getter(cfg, store, 0)
    /\ ret' = IF loc'.raised THEN loc' ELSE loc'.out_dict
    /\ pc' = IF loc'.raised THEN "raised" ELSE "done"
    /\ UNCHANGED <<cfg, store>>

NextVerb == VerbItemGetterCall \/ Return

SpecVerb == InitVerb /\ [][NextVerb]_vars

\* the three inconsistencies of the tables behind the access of SRL row 0
FeatMismatch ==
    Min(store.num_proposals[1], cfg.max_proposals) # Len(store.region_feature[1])
BoxMismatch ==
    Len(store.anet_ent_captions[1].bbox) # Len(store.anet_ent_captions[1].frm_idx)
NoVerbArg ==
    \A i \in 1..Len(store.srl_annots[1].req_pat_ix) :
        store.srl_annots[1].req_pat_ix[i][1] # "V"

(***************************************************************************)
(* C14: an access fails at once, and returns no example, when the region   *)
(* features have another row count than the proposals passed to            *)
(* get_features, when a caption's box and frame-index lists differ in      *)
(* length, or when the SRL frame has no argument tagged V; the failure is  *)
(* that of the first check that does not hold, and an access over          *)
(* consistent tables returns its example.                                  *)
(***************************************************************************)
C14_FailFast ==
    (call.op = "verb_item_getter" /\ pc \in {"done", "raised"}) =>
        /\ (FeatMismatch \/ BoxMismatch \/ NoVerbArg) <=> pc = "raised"
        /\ pc = "raised" =>
              /\ ret.raised
              /\ DOMAIN ret = {"raised", "at"}
              /\ ret.at = (IF FeatMismatch THEN "get_features"
                           ELSE IF BoxMismatch THEN "get_gt_annots"
                           ELSE "assert 'V' in srl_args")
        /\ pc = "done" => "pad_proposals" \in DOMAIN ret /\ "srl_arg_inds" \in DOMAIN ret

\* Proposals, features and boxes are consistent but the frame has no verb:
\* the access got as far as the SRL encoding and raised there.
C14_Witness ==
    /\ call.op = "verb_item_getter"
    /\ pc = "raised"
    /\ ~FeatMismatch
    /\ ~BoxMismatch
    /\ NoVerbArg
    /\ ret.at = "assert 'V' in srl_args"

(***************************************************************************)
(* Construction and dispatch.  The object is built from a split, a sample  *)
(* policy, a number of videos and a concatenation mode; after_init may     *)
(* fail, and then no example is ever produced.  __getitem__ calls the item *)
(* getter after_init chose; verb_item_getter_SEP is the one of the modes   *)
(* sep and svsq and returns what the composer (itemcollector) returns.     *)
(***************************************************************************)
MaxSepVids == 2   \* largest cs_nvids_sample configured in the dispatch runs

\* the train loop of verb_item_getter_nvid (lines 1376-1389) as a whole: hung
\* marks the loop that can never end (nothing to iterate over)
RECURSIVE GatherTrain(_, _, _, _)
GatherTrain(c, st, more_idxs, l) ==
    IF ~(Len(l.new_idxs) < c.cs_nvids_sample) THEN l
    ELSE IF more_idxs = <<>> THEN [l EXCEPT !.hung = TRUE]
    ELSE LET l2 == GatherFor(c, st, more_idxs, l.cons, 1, l) IN
         IF l2.raised THEN l2
         ELSE GatherTrain(c, st, more_idxs, [l2 EXCEPT !.cons = @ + 1])

\* lines 1365-1400: selector output to gathered lists
GatherAll(c, st, idx, more_idxs) ==
    LET l0 == [more_idxs |-> more_idxs,
               new_idxs  |-> <<idx>>,
               curr_verb |-> lemma_verb(st, idx),
               verb_cmp  |-> <<1>>,
               verb_list |-> <<lemma_verb(st, idx)>>,
               cons      |-> 0,
               raised    |-> FALSE,
               hung      |-> FALSE]
    IN  IF c.split_type = "train" THEN GatherTrain(c, st, more_idxs, l0)
        ELSE GatherFor(c, st, more_idxs, 0, 1, l0)

verb_item_getter_SEP_One(r) ==
    IF r.raised THEN r ELSE [r EXCEPT !.out_dict.num_cmp = 1]

\* lines 1340-1344: return self.itemcollector(idx)
verb_item_getter_SEP(r) == r

InitNew ==
    /\ pc = "new"
    /\ cfg = None
    /\ store = None
    /\ call = [op |-> "none"]
    /\ loc = None
    /\ ret = None

\* Anet_SRL.__init__: the tables are loaded and after_init configures the
\* object or fails
Construct ==
    /\ pc = "new"
    /\ \E split_type \in {"train", "valid", "trainval"},
          sample \in {"ds4", "random", "ds4_random", "hard"},
          n \in 1..MaxSepVids, conc_type \in {"spat", "temp", "sep", "svsq", "grid"}, sh \in BOOLEAN :
          /\ call' = [op |-> "__init__", split_type |-> split_type, sample |-> sample,
                      nvids_sample |-> n, conc_type |-> conc_type]
          /\ cfg' = after_init(CsBase, split_type, sample, n, conc_type, sh)
          /\ pc' = IF cfg'.failed THEN "init_failed" ELSE "ready"
          /\ IF split_type = "train" \/ cfg'.failed
             THEN store' = CsStore(<<>>, <<>>)
             ELSE \E m \in CandidateMappings : store' = CsStore(m, ReverseKeys(m))
    /\ UNCHANGED <<loc, ret>>

\* __getitem__ of an object whose item getter is verb_item_getter_SEP
GetItemSep ==
    /\ pc = "ready"
    /\ cfg.itemgetter = "verb_item_getter_SEP"
    /\ \E idx \in {0} :
         \E more_idxs \in more_idx_collector(cfg, store, idx) :
            /\ call' = [op |-> "__getitem__", idx |-> idx]
            /\ \E l \in {GatherAll(cfg, store, idx, more_idxs)} :
               IF l.raised \/ l.hung
               THEN /\ loc' = l
                    /\ ret' = [raised |-> TRUE, at |-> "arg_ids[cons]"]
                    /\ pc' = IF l.raised THEN "raised" ELSE "hung"
               ELSE \E simple_permute \in
                        (IF cfg.cs_shuffle THEN randperm(Len(l.new_idxs))
                         ELSE {arange(Len(l.new_idxs))}) :
                       /\ loc' = [simple_permute |-> simple_permute,
                                  new_items |-> nvid_items(cfg, store, l, simple_permute),
                                  srl |-> get_srl_anns(cfg, store, store.srl_annots[idx + 1])] @@ l
                       /\ \E r \in {verb_item_getter_SEP(nvid_compose(cfg, store, idx, loc'))} :
                             /\ ret' = IF r.raised THEN r ELSE r.out_dict
                             /\ pc' = IF r.raised THEN "raised" ELSE "done"
    /\ UNCHANGED <<cfg, store>>

NextDispatch == Construct \/ GetItemSep \/ Return

SpecDispatch == InitNew /\ [][NextDispatch]_vars

\* the configuration values after_init accepts
ValidChoice(split_type, sample, conc_type) ==
    /\ split_type \in {"train", "valid", "test"}
    /\ sample \in (IF split_type = "train" THEN {"random", "ds4", "ds4_random"}
                   ELSE {"random", "ds4"})
    /\ conc_type \in {"spat", "temp", "sep", "svsq"}

(***************************************************************************)
(* C16: with conc_type sep or svsq the item getter returns the composer's  *)
(* output as it is; svsq forces cs_nvids_sample = 1, and then every access *)
(* returns an example of one video, the target (num_cmp = 1,               *)
(* target_cmp = 0, new_srl_idxs = [idx]); a conc_type outside {spat, temp, *)
(* sep, svsq} or a sample policy outside the set allowed for the split     *)
(* fails at initialization, and no example is produced afterwards.         *)
(***************************************************************************)
C16_Dispatch ==
    /\ (call.op = "__init__" =>
           /\ pc \in {"init_failed", "ready"}
           /\ pc = "init_failed" <=>
                 ~ValidChoice(call.split_type, call.sample, call.conc_type)
           /\ pc = "ready" =>
                 /\ cfg.conc_type = call.conc_type
                 /\ cfg.itemgetter = "verb_item_getter_SEP" <=>
                       call.conc_type \in {"sep", "svsq"}
                 /\ cfg.cs_nvids_sample =
                       (IF call.conc_type = "svsq" THEN 1 ELSE call.nvids_sample))
    /\ (pc = "init_failed" => cfg = [failed |-> TRUE] /\ ret = None)
    /\ (call.op = "__getitem__" =>
           /\ ~cfg.failed
           /\ ValidChoice(cfg.split_type, cfg.sample_type, cfg.conc_type)
           /\ cfg.conc_type \in {"sep", "svsq"}
           /\ pc = "done" => ret = nvid_compose(cfg, store, call.idx, loc).out_dict
           /\ cfg.conc_type = "svsq" =>
                 /\ cfg.cs_nvids_sample = 1
                 /\ pc = "done"
                 /\ ret.num_cmp = 1
                 /\ ret.target_cmp = 0
                 /\ ret.new_srl_idxs = <<call.idx>>
                 /\ Len(ret.pad_proposals) = 1)

\* An svsq object configured for two videos in the valid split, whose stored
\* mapping offers candidates, has returned the target alone.
C16_Witness ==
    /\ call.op = "__getitem__"
    /\ pc = "done"
    /\ cfg.conc_type = "svsq"
    /\ cfg.split_type = "valid"
    /\ Len(store.srl_annots[1].DS4_Inds) = 2
    /\ store.srl_annots[1].DS4_Inds[1].ids[1] = 1
    /\ ret.num_cmp = 1
    /\ ret.new_srl_idxs = <<0>>

\* the candidates in gathering order: pass by pass, in each pass the entry of
\* that pass of every argument name in mapping order, without the sentinel
RECURSIVE RoundRobin(_, _, _)
RoundRobin(more_idxs, pass, passes) ==
    IF pass >= passes THEN <<>>
    ELSE Concat([k \in 1..Len(more_idxs) |->
                    IF pass + 1 <= Len(more_idxs[k].ids) /\ more_idxs[k].ids[pass + 1] # -1
                    THEN <<more_idxs[k].ids[pass + 1]>> ELSE <<>>])
         \o RoundRobin(more_idxs, pass + 1, passes)

(***************************************************************************)
(* C18: before the permutation the gathered list is the target followed by *)
(* the non-sentinel candidates taken round-robin across the argument names *)
(* in mapping order (pass c takes entry c of every list), cut as soon as   *)
(* cs_nvids_sample indices are held; -1 is never gathered; verb_cmp[i] is  *)
(* 1 iff the lemma verb of gathered index i is the target's; eval uses     *)
(* pass 0 only and train makes passes until cs_nvids_sample are held.      *)
(***************************************************************************)
C18_GatherOrder ==
    (call.op = "verb_item_getter_nvid" /\ pc \in {"permute", "done"}) =>
        LET passes == IF cfg.split_type = "train" THEN MaxCand ELSE 1
            cands  == RoundRobin(loc.more_idxs, 0, passes)
            want   == <<call.idx>> \o SubSeq(cands, 1, Min(Len(cands), cfg.cs_nvids_sample - 1))
        IN  /\ loc.new_idxs = want
            /\ \A i \in 1..Len(loc.new_idxs) : loc.new_idxs[i] # -1
            /\ Len(loc.verb_cmp) = Len(loc.new_idxs)
            /\ \A i \in 1..Len(loc.new_idxs) :
                  loc.verb_cmp[i] = 1 <=>
                     lemma_verb(store, loc.new_idxs[i]) = lemma_verb(store, call.idx)
            /\ \A i \in 1..Len(loc.new_idxs) : loc.verb_cmp[i] \in {0, 1}
            /\ (cfg.split_type = "train" => Len(loc.new_idxs) = cfg.cs_nvids_sample)
            /\ (cfg.split_type # "train" => loc.cons = 0)

\* A train access for three videos over one argument name needed a second
\* pass: the list's entries 0 and 1 follow the target, with different verbs.
C18_Witness ==
    /\ call.op = "verb_item_getter_nvid"
    /\ pc = "permute"
    /\ cfg.split_type = "train"
    /\ cfg.cs_nvids_sample = 3
    /\ call.idx = 0
    /\ Len(loc.more_idxs) = 1
    /\ loc.more_idxs[1].ids = <<2, 1>>
    /\ loc.cons = 2
    /\ loc.new_idxs = <<0, 2, 1>>
    /\ loc.verb_cmp = <<1, 0, 1>>

(***************************************************************************)
(* AV_CS.verb_item_getter_SPAT and AV_CS.verb_item_getter_TEMP: the        *)
(* composer's example of cs_nvids_sample slots turned into one video.  The *)
(* segment features are not part of the model's examples.                  *)
(***************************************************************************)
\* F.pad(t, (.., 0, k)) on the first axis: k rows of zero appended, or -k rows cut
F_pad(t, k, zero) ==
    IF k >= 0 THEN t \o [i \in 1..k |-> zero] ELSE SubSeq(t, 1, Len(t) + k)

\* the first n1 rows of every slot, in slot order
GtRowsOf(gt_boxs, nums) ==
    Concat([v \in 1..Min(Len(gt_boxs), Len(nums)) |-> PyPrefix(gt_boxs[v], nums[v])])

process_gt_boxs_SlotZero(c, gt_boxs, nums) ==
    F_pad(PyPrefix(gt_boxs[1], c.max_gt_box), 0, Zeros(Len(gt_boxs[1][1])))

\* the dummy row taken from the last slot instead of slot 0
process_gt_boxs_LastSlotDummy(c, gt_boxs, nums) ==
    LET rows    == GtRowsOf(gt_boxs, nums)
        gt_box1 == IF Len(rows) = 0 THEN <<gt_boxs[Len(gt_boxs)][1]>> ELSE rows
    IN  F_pad(gt_box1, c.max_gt_box - Len(gt_box1), Zeros(Len(gt_boxs[1][1])))

\* lines 1105-1121 and 1254-1264
process_gt_boxs(c, gt_boxs, nums) ==
    LET rows    == GtRowsOf(gt_boxs, nums)
        gt_box1 == IF Len(rows) = 0 THEN <<gt_boxs[1][1]>> ELSE rows
    IN  F_pad(gt_box1, c.max_gt_box - Len(gt_box1), Zeros(Len(gt_boxs[1][1])))

\* lines 1123-1135 and 1266-1278 (before the unsqueeze of TEMP)
process_gt_boxs_msk(c, gt_boxs, nums) ==
    LET rows    == GtRowsOf(gt_boxs, nums)
        gt_box1 == IF Len(rows) = 0 THEN <<gt_boxs[1][1]>> ELSE rows
    IN  F_pad(gt_box1, c.max_gt_box - Len(gt_box1), 0)

\* x1[x2 > 0] += new_pos
ShiftLinks(x1, x2, new_pos) ==
    [a \in 1..Len(x1) |->
       [i \in 1..Len(x1[a]) |->
          [j \in 1..Len(x1[a][i]) |->
             IF x2[a][i][j] > 0 THEN x1[a][i][j] + new_pos ELSE x1[a][i][j]]]]

\* lines 1186-1194 and 1319-1322: the frame mask over all proposals and the
\* first num_box rows of the joined boxes, inside a matrix of ones
ConcFrmMask(c, num_cmp, pad_proposals, pad_gt_bboxs, num_box) ==
    LET frm_mask == get_frm_mask(Column(pad_proposals, ColFrm),
                                 Column(PyPrefix(pad_gt_bboxs, num_box), ColFrm))
    IN  [i \in 1..(num_cmp * c.max_proposals) |->
           [j \in 1..c.max_gt_box |->
              IF i <= Len(frm_mask) /\ j <= Len(frm_mask[i])
              THEN BoolBit(frm_mask[i][j]) ELSE 1]]

\* mdl_srl_utils.combine_first_ax(t, keepdim=False): the first two axes joined
combine_first_ax(t) == Concat(t)

\* the joined example with the composer's num_cmp left in place
ConcCommon_KeepNumCmp(c, o, pad_proposals, shifted_gt) ==
    LET num_cmp  == Len(o.new_srl_idxs)
        num_box  == SumSeq(o.num_box)
        pad_gt_bboxs == process_gt_boxs(c, shifted_gt, o.num_box)
        new_pos  == CumSum0(o.num_box)[o.target_cmp + 1]
    IN  [num_props     |-> SumSeq(o.num_props),
         pad_proposals |-> pad_proposals,
         pad_gt_bboxs  |-> pad_gt_bboxs,
         srl_boxes     |-> ShiftLinks(o.srl_boxes, o.srl_boxes_lens, new_pos),
         num_box2      |-> o.num_box,
         num_box       |-> num_box,
         pad_frm_mask  |-> ConcFrmMask(c, num_cmp, pad_proposals, pad_gt_bboxs, num_box)]

\* the fields both getters compute alike, from the composer's example o
ConcCommon(c, o, pad_proposals, shifted_gt) ==
    LET num_cmp  == Len(o.new_srl_idxs)
        num_box  == SumSeq(o.num_box)
        pad_gt_bboxs == process_gt_boxs(c, shifted_gt, o.num_box)
        tcmp     == o.target_cmp
        nboxes   == CumSum0(o.num_box)
        new_pos  == nboxes[tcmp + 1]
    IN  [num_props     |-> SumSeq(o.num_props),
         num_cmp       |-> 1,
         pad_proposals |-> pad_proposals,
         pad_gt_bboxs  |-> pad_gt_bboxs,
         srl_boxes     |-> ShiftLinks(o.srl_boxes, o.srl_boxes_lens, new_pos),
         num_box2      |-> o.num_box,
         num_box       |-> num_box,
         pad_frm_mask  |-> ConcFrmMask(c, num_cmp, pad_proposals, pad_gt_bboxs, num_box)]

\* lines 1137-1218
verb_item_getter_SPAT(c, r) ==
    IF r.raised THEN r
    ELSE LET o == r.out_dict
             pad_proposals == SPAT_process_props(c, o.pad_proposals, SpatShift, FALSE, TRUE)
             shifted_gt    == SPAT_process_props(c, o.pad_gt_bboxs, SpatShift, TRUE, FALSE)
         IN  [raised |-> FALSE,
              out_dict |->
                 ConcCommon(c, o, pad_proposals, shifted_gt)
                 @@ [pad_gt_box_mask    |-> process_gt_boxs_msk(c, o.pad_gt_box_mask, o.num_box),
                     pad_pnt_mask       |-> reshuffle_boxes(c, o.pad_pnt_mask),
                     pad_region_feature |-> reshuffle_boxes(c, o.pad_region_feature)]
                 @@ o]

\* lines 1282-1338
verb_item_getter_TEMP(c, r) ==
    IF r.raised THEN r
    ELSE LET o == r.out_dict
             pad_proposals == TEMP_process_props(c, o.pad_proposals, TempShift, FALSE, FALSE)
             shifted_gt    == TEMP_process_props(c, o.pad_gt_bboxs, TempShift, TRUE, FALSE)
         IN  [raised |-> FALSE,
              out_dict |->
                 ConcCommon(c, o, pad_proposals, shifted_gt)
                 @@ [pad_gt_box_mask    |-> <<process_gt_boxs_msk(c, o.pad_gt_box_mask, o.num_box)>>,
                     pad_pnt_mask       |-> combine_first_ax(o.pad_pnt_mask),
                     pad_region_feature |-> combine_first_ax(o.pad_region_feature)]
                 @@ o]

(***************************************************************************)
(* The specification of the SPAT and TEMP datasets of the valid split: the *)
(* store of the composer's specification, max_gt_box either MaxGt or large *)
(* enough for the boxes of MaxNvids slots, and one action per item getter. *)
(***************************************************************************)

\* the stored mappings of an eval split, whose gathering reads entry 0 of
\* every list only: lists of one entry
ConcMappings == { m \in CandidateMappings : \A k \in 1..Len(m) : Len(m[k].ids) = 1 }

ConcBase(max_gt_box, num_prop_per_frm) ==
    SrlArgs(3, 3, 2) @@ SetArgs(2, num_prop_per_frm, ConfMid, FALSE, max_gt_box, FALSE)

\* the proposals of the three videos: four detections (one below the
\* threshold), one detection and three detections
ConcLabelProposals ==
    << CsLabelProposals[1] \o
          << <<Fl(14), Fl(24), Fl(34), Fl(44), Fl(1), Fl(3), ConfHi>>,
             <<Fl(16), Fl(26), Fl(36) + 1, Fl(46), Fl(0), Fl(4), ConfHi>> >>,
       CsLabelProposals[2],
       CsLabelProposals[3] \o
          << <<Fl(102), Fl(27), Fl(302), Fl(47), Fl(0), Fl(2), ConfHi>> >> >>

\* the store of the composer's specification with these proposals and one
\* stored feature for each of the first max_proposals proposals of a video
ConcStore(m, max_proposals) ==
    [CsStore(m, m) EXCEPT
        !.label_proposals = ConcLabelProposals,
        !.num_proposals   = [i \in 1..3 |-> Len(ConcLabelProposals[i])],
        !.region_feature  =
            [i \in 1..3 |->
               [k \in 1..Min(Len(ConcLabelProposals[i]), max_proposals) |-> <<Fl(10 * i + k)>>]]]

InitConc ==
    /\ pc = "ready"
    /\ call = [op |-> "none"]
    /\ loc = None
    /\ ret = None
    /\ \E conc_type \in {"spat", "temp"}, max_gt_box \in {MaxGt, MaxNvids * MaxGt}, P \in 1..MaxPpf,
          n \in 1..MaxNvids, sh \in BOOLEAN, m \in ConcMappings :
            /\ cfg = after_init(ConcBase(max_gt_box, P), "valid", "ds4", n, conc_type, sh)
            /\ store = ConcStore(m, 2 * P)

\* self.itemcollector(idx) followed by the getter named by fn
GetItemConc(fn) ==
    /\ \E idx \in {0, 2} :
         \E more_idxs \in more_idx_collector(cfg, store, idx) :
            /\ call' = [op |-> fn, idx |-> idx]
            /\ \E l \in {GatherAll(cfg, store, idx, more_idxs)} :
               IF l.raised \/ l.hung
               THEN /\ loc' = l
                    /\ ret' = [raised |-> TRUE, at |-> "arg_ids[cons]"]
                    /\ pc' = IF l.raised THEN "raised" ELSE "hung"
               ELSE \E simple_permute \in
                        (IF cfg.cs_shuffle THEN randperm(Len(l.new_idxs))
                         ELSE {arange(Len(l.new_idxs))}) :
                       /\ loc' = [simple_permute |-> simple_permute,
                                  new_items |-> nvid_items(cfg, store, l, simple_permute),
                                  srl |-> get_srl_anns(cfg, store, store.srl_annots[idx + 1])] @@ l
                       /\ \E r \in {IF fn = "verb_item_getter_SPAT"
                                   THEN verb_item_getter_SPAT(cfg, nvid_compose(cfg, store, idx, loc'))
                                   ELSE verb_item_getter_TEMP(cfg, nvid_compose(cfg, store, idx, loc'))} :
                              /\ ret' = IF r.raised THEN r ELSE r.out_dict
                              /\ pc' = IF r.raised THEN "raised" ELSE "done"
    /\ UNCHANGED <<cfg, store>>

GetItemSpat ==
    /\ pc = "ready"
    /\ cfg.itemgetter = "verb_item_getter_SPAT"
    /\ GetItemConc("verb_item_getter_SPAT")

GetItemTemp ==
    /\ pc = "ready"
    /\ cfg.itemgetter = "verb_item_getter_TEMP"
    /\ GetItemConc("verb_item_getter_TEMP")

NextConc == GetItemSpat \/ GetItemTemp \/ Return

SpecConc == InitConc /\ [][NextConc]_vars

ConcDone == pc = "done" /\ call.op \in {"verb_item_getter_SPAT", "verb_item_getter_TEMP"}

\* a ground-truth row of slot v (0-based) with the slot's offset applied:
\* v * 720 on the x columns in SPAT, v * 10 on the frame column in TEMP
OffsetGtRow(row, v) ==
    [ch \in 1..Len(row) |->
        IF call.op = "verb_item_getter_SPAT"
        THEN (IF ch \in {ColX1, ColX2} THEN RoundF32(row[ch] + Fl(v * SpatShift)) ELSE row[ch])
        ELSE (IF ch = ColFrm THEN RoundF32(row[ch] + Fl(v * TempShift)) ELSE row[ch])]

(***************************************************************************)
(* C19: in SPAT and TEMP, when the ground-truth boxes of all slots fit in  *)
(* max_gt_box, every valid SRL box link (srl_boxes_lens > 0) is increased  *)
(* by the number of boxes of the slots before target_cmp, and the row of   *)
(* the joined pad_gt_bboxs at the shifted link is the target slot's own    *)
(* box at the original link with the slot's offset applied; a link of      *)
(* validity 0 is unchanged.                                                *)
(***************************************************************************)
C19_LinkShift ==
    (ConcDone /\ SumSeq(ret.num_box2) <= cfg.max_gt_box) =>
        LET orig   == loc.srl.out_dict.srl_boxes
            lens   == loc.srl.out_dict.srl_boxes_lens
            tcmp   == ret.target_cmp
            before == SumSeq(SubSeq(ret.num_box2, 1, tcmp))
            own    == loc.new_items[tcmp + 1].out_dict.pad_gt_bboxs
        IN  /\ ret.srl_boxes_lens = <<lens>>
            /\ Len(ret.srl_boxes) = 1
            /\ \A i \in 1..Len(orig) : \A j \in 1..Len(orig[i]) :
                  IF lens[i][j] > 0
                  THEN /\ ret.srl_boxes[1][i][j] = orig[i][j] + before
                       /\ ret.pad_gt_bboxs[orig[i][j] + before + 1]
                             = OffsetGtRow(own[orig[i][j] + 1], tcmp)
                  ELSE ret.srl_boxes[1][i][j] = orig[i][j]

\* Three SPAT slots with the target (two boxes) in slot 1 behind a video of
\* one box: the links 0 and 1 of ARG0 became 1 and 2, the link 1 of ARG1
\* became 2, and the joined boxes fit in max_gt_box.
C19_Witness ==
    /\ ConcDone
    /\ call.op = "verb_item_getter_SPAT"
    /\ call.idx = 2
    /\ cfg.cs_nvids_sample = 3
    /\ ret.target_cmp = 1
    /\ ret.num_box2 = <<1, 2, 1>>
    /\ ret.num_box = 4
    /\ cfg.max_gt_box >= 4
    /\ loc.srl.out_dict.srl_boxes = << <<0, 1>>, <<0, 0>>, <<1, 0>> >>
    /\ ret.srl_boxes = << << <<1, 2>>, <<0, 0>>, <<2, 0>> >> >>
    /\ ret.pad_gt_bboxs[3][ColX1] = RoundF32(loc.new_items[2].out_dict.pad_gt_bboxs[2][ColX1]
                                             + Fl(SpatShift))

\* a proposal row of slot v (0-based) with the x offset of SPAT applied
OffsetPropRow(row, v) ==
    [ch \in 1..Len(row) |->
        IF ch \in {ColX1, ColX2} THEN RoundF32(row[ch] + Fl(v * SpatShift)) ELSE row[ch]]

\* the 1-based output row of proposal p of frame f of slot v (all 0-based)
SpatRow(n, P, f, v, p) == f * (n * P) + v * P + p + 1

(***************************************************************************)
(* C20: in SPAT with n = cs_nvids_sample slots, F = num_frms and           *)
(* P = num_prop_per_frm, output row f*(n*P) + v*P + p of pad_proposals,    *)
(* pad_region_feature and pad_pnt_mask is input row f*P + p of slot v for  *)
(* all v < n, f < F, p < P; the rows are mapped one to one onto the n*F*P  *)
(* output rows, the three tensors use the same mapping, and a proposal row *)
(* carries the x offset of its slot v.                                     *)
(***************************************************************************)
C20_SpatReindex ==
    (ConcDone /\ call.op = "verb_item_getter_SPAT") =>
        LET o == nvid_compose(cfg, store, call.idx, loc).out_dict
            n == cfg.cs_nvids_sample
            F == cfg.num_frms
            P == cfg.num_prop_per_frm
            Slots == (0..(n - 1)) \X (0..(F - 1)) \X (0..(P - 1))
        IN  /\ Len(o.pad_proposals) = n
            /\ Len(ret.pad_proposals) = n * F * P
            /\ Len(ret.pad_region_feature) = n * F * P
            /\ Len(ret.pad_pnt_mask) = n * F * P
            /\ { SpatRow(n, P, t[2], t[1], t[3]) : t \in Slots } = 1..(n * F * P)
            /\ \A t, u \in Slots :
                  SpatRow(n, P, t[2], t[1], t[3]) = SpatRow(n, P, u[2], u[1], u[3]) => t = u
            /\ \A t \in Slots :
                  LET v == t[1]
                      f == t[2]
                      p == t[3]
                      out == SpatRow(n, P, f, v, p)
                      inp == f * P + p + 1
                  IN  /\ ret.pad_proposals[out] = OffsetPropRow(o.pad_proposals[v + 1][inp], v)
                      /\ ret.pad_region_feature[out] = o.pad_region_feature[v + 1][inp]
                      /\ ret.pad_pnt_mask[out] = o.pad_pnt_mask[v + 1][inp]

\* Three slots of two frames of two proposals in SPAT: proposal 1 of frame 1
\* of slot 1, input row 3 of that slot, is output row 9 (0-based), with its
\* feature, and its x1 carries the offset 720 of slot 1.
C20_Witness ==
    /\ ConcDone
    /\ call.op = "verb_item_getter_SPAT"
    /\ cfg.cs_nvids_sample = 3
    /\ cfg.num_frms = 2
    /\ cfg.num_prop_per_frm = 2
    /\ ret.new_srl_idxs = <<2, 1, 0>>
    /\ Len(ret.pad_proposals) = 12
    /\ ret.pad_region_feature[10] = <<Fl(14)>>
    /\ ret.pad_region_feature[10] = loc.new_items[2].out_dict.pad_region_feature[4]
    /\ ret.pad_pnt_mask[10] = loc.new_items[2].out_dict.pad_pnt_mask[4]
    /\ ret.pad_proposals[10][ColX1] = Fl(16) + Fl(SpatShift)

(***************************************************************************)
(* Sequences of accesses to one dataset, with the objects the handlers     *)
(* change in place.  An object is [val, at]: its value and the place it    *)
(* has in the tables of self (a path such as <<"srl_annots", 3,            *)
(* "DS4_Inds">>), or at = <<>> for an object the access made itself.  A    *)
(* statement that works in place changes the tables when its target is a   *)
(* stored object; an access leaves in store the tables with the writes its *)
(* statements made.  call.seq counts the accesses made since construction  *)
(* and call.loaded keeps the tables the constructor loaded.                *)
(***************************************************************************)
MaxAccess == 2    \* most accesses in a sequence

\* a statement that leaves object o with value v, as the writes to the
\* tables it makes
Mutate(o, v) == IF o.at = <<>> THEN <<>> ELSE << [at |-> o.at, val |-> v] >>

\* lines 160-183 on an object: the object returned and the writes made.
\* out_list itself comes back when nothing is to be done (line 174), a slice
\* is a new list (line 176) and a short list is extended in place
\* (out_list += defm * ..., line 181)
PadObject(out_list, pad_len, defm) ==
    LET curr_len == Len(out_list.val) IN
    IF pad_len = -1 \/ curr_len = pad_len THEN [obj |-> out_list, writes |-> <<>>]
    ELSE IF curr_len > pad_len
         THEN [obj |-> [val |-> PyPrefix(out_list.val, pad_len), at |-> <<>>],
               writes |-> <<>>]
         ELSE LET v == out_list.val \o ListTimes(defm, pad_len - curr_len) IN
              [obj |-> [out_list EXCEPT !.val = v], writes |-> Mutate(out_list, v)]

\* the writes of simple_item_getter(idx) when its result is r: get_props
\* (lines 185-201), get_gt_annots (lines 318-340) and the arrays filled at
\* lines 388-423
simple_item_getter_writes(c, st, idx, r) ==
    LET ix == st.annots[idx + 1].Index
        \* line 186: the stored array of the segment; line 187: a slice of it
        \* is a view of the same array, and copy.deepcopy makes a new one
        label_proposals == [val |-> st.label_proposals[ix + 1],
                            at  |-> <<"label_proposals", ix + 1>>]
        view      == [label_proposals EXCEPT
                         !.val = PyPrefix(@, st.num_proposals[ix + 1])]
        proposals == [val |-> view.val, at |-> <<>>]
        \* line 191: the comparison makes a new array; line 193 changes it (&=)
        pnt_mask  == [val |-> [i \in 1..Len(proposals.val) |->
                                 BoolBit(proposals.val[i][ColConf] >= c.prop_thresh)],
                      at  |-> <<>>]
        pnt_mask_and == [i \in 1..Len(proposals.val) |-> PntMaskBit(c, proposals.val[i])]
        \* lines 198, 200: tolist() makes the lists that are padded
        props_list == [val |-> proposals.val, at |-> <<>>]
        mask_list  == [val |-> pnt_mask_and, at |-> <<>>]
        \* line 400: the stored caption entry; lines 319-323 make tensors from
        \* its lists, line 326 a list from the tensors, line 330 [1] * num_box
        caption_dct == [val |-> st.anet_ent_captions[idx + 1],
                        at  |-> <<"anet_ent_captions", idx + 1>>]
        num_box      == Len(caption_dct.val.bbox)
        gt_list      == [val |-> [i \in 1..num_box |->
                                    caption_dct.val.bbox[i] \o <<caption_dct.val.frm_idx[i]>>],
                         at  |-> <<>>]
        gt_mask_list == [val |-> Ones(num_box), at |-> <<>>]
        \* lines 387, 414, 420: the arrays np.zeros and np.ones make
        made == [val |-> <<>>, at |-> <<>>]
    IN  (IF c.exclude_bgd_det THEN Mutate(pnt_mask, pnt_mask_and) ELSE <<>>)
        \o PadObject(props_list, c.max_proposals, <<Zeros(7)>>).writes
        \o PadObject(mask_list, c.max_proposals, <<0>>).writes
        \o (IF r.raised THEN <<>>
            ELSE PadObject(gt_list, c.max_gt_box, <<Zeros(5)>>).writes
                 \o PadObject(gt_mask_list, c.max_gt_box, <<0>>).writes
                 \* lines 415 and 422: slices of the new arrays are assigned
                 \o Mutate(made, r.out_dict.pad_frm_mask)
                 \o Mutate(made, r.out_dict.pad_region_feature))

\* the writes of get_srl_anns on the object srl_row when its result is r
\* (lines 509-770)
get_srl_anns_writes(c, st, srl_row, r) ==
    LET \* line 519: copy.deepcopy(srl_row), the handler's own row
        row  == [val |-> srl_row.val, at |-> <<>>]
        \* a list the handler makes (a comprehension, appends to a new list,
        \* tolist(), [1] * n, or list(t) over a zip of the row's lists), padded
        Pad(v, pad_len, defm) == PadObject([val |-> v, at |-> <<>>], pad_len, defm).writes
        req_pat_ix     == row.val.req_pat_ix
        srl_args       == [i \in 1..Len(req_pat_ix) |-> req_pat_ix[i][1]]
        srl_words_inds == [i \in 1..Len(req_pat_ix) |-> req_pat_ix[i][2]]
        conc_ix        == Concat(srl_words_inds)
        \* lines 557 and 571 (the out_list of line 543)
        before ==
            Pad([i \in 1..Len(srl_args) |-> BoolBit(srl_args[i] \in c.include_srl_args)],
                c.srl_arg_len, <<0>>)
            \o Pad([i \in 1..Len(conc_ix) |->
                      VocIndex(st.arg_tag_vocab, row.val.tags[conc_ix[i] + 1])],
                   c.seq_length, <<1>>)
    IN  IF r.raised THEN before
        ELSE
        LET o == r.out_dict
            seq_cnt == SumSeq(o.srl_arg_words_length)
            pats    == row.val.req_cls_pats_mask
            \* lines 589 and 603 (the out_list of line 543), line 602
            words ==
                Pad([i \in 1..Len(srl_args) |-> VocIndex(st.arg_vocab, srl_args[i])],
                    c.srl_arg_len, <<1>>)
                \o Concat([i \in 1..Len(srl_words_inds) |->
                      Pad([j \in 1..Len(srl_words_inds[i]) |->
                             VocIndex(st.wtoi, row.val.words[srl_words_inds[i][j] + 1])],
                          c.seq_length, <<1>>)])
                \o Pad([i \in 1..Len(srl_words_inds) |->
                          word_to_int_vocab(
                              [j \in 1..Len(srl_words_inds[i]) |->
                                  row.val.words[srl_words_inds[i][j] + 1]],
                              st.wtoi, c.seq_length)],
                       c.srl_arg_len, << <<ListTimes(<<1>>, c.seq_length), 0>> >>)
            \* lines 637 and 665: the word positions and the inverse map
            maps ==
                Pad(Concat([i \in 1..Len(o.srl_arg_words_length) |->
                              ArangeFrom((i - 1) * c.seq_length,
                                         (i - 1) * c.seq_length + o.srl_arg_words_length[i])]),
                    c.seq_length, <<-1>>)
                \o Pad(Concat([y_ix \in 1..Len(PyPrefix(srl_words_inds, c.srl_arg_len)) |->
                                 [j \in 1..Len(srl_words_inds[y_ix]) |-> y_ix - 1]]),
                       c.seq_length, <<0>>)
            \* lines 677-681 and 688: the binary masks
            masks ==
                Concat([i \in 1..Len(srl_words_inds) |->
                          Pad(Ones(seq_cnt), c.seq_length, <<0>>)])
                \o Pad([i \in 1..Len(srl_words_inds) |->
                          pad_words_with_vocab(Ones(seq_cnt), c.seq_length, <<0>>)],
                       c.srl_arg_len, <<Zeros(c.seq_length)>>)
                \o Pad([i \in 1..Len(conc_ix) |-> 0], c.seq_length, <<0>>)
            \* lines 713-716: the box links of every argument (s11 and
            \* [1] * mult); lines 719, 724 and 730: the lists of line 704 and
            \* 705 and the list(t) of line 699
            per_arg == [i \in 1..Len(pats) |-> SrlBoxesOf(c, pats[i][3], pats[i][2])]
            boxes ==
                Concat([i \in 1..Len(pats) |->
                          Pad([x_ix \in 1..Len(pats[i][3]) |->
                                 IF x_ix - 1 < c.box_per_srl_arg THEN pats[i][3][x_ix] ELSE 0],
                              c.box_per_srl_arg, <<0>>)
                          \o Pad(Ones(IF pats[i][2] = 1
                                      THEN Min(Len(pats[i][3]), c.box_per_srl_arg) ELSE 0),
                                 c.box_per_srl_arg, <<0>>)])
                \o Pad([i \in 1..Len(pats) |-> per_arg[i].boxes], c.srl_arg_len,
                       <<Zeros(c.box_per_srl_arg)>>)
                \o Pad([i \in 1..Len(pats) |-> per_arg[i].lens], c.srl_arg_len,
                       <<Zeros(c.box_per_srl_arg)>>)
                \o Pad([i \in 1..Len(pats) |-> pats[i][2]], c.srl_arg_len, <<0>>)
        IN  before \o words \o maps \o masks \o boxes

dict_of_keys_InPlace(more_idxs, new_keys) ==
    LET m == [i \in 1..Len(new_keys) |-> more_idxs.val[new_keys[i]]] IN
    [obj |-> [more_idxs EXCEPT !.val = m], writes |-> Mutate(more_idxs, m)]

\* lines 996, 1005, 1022 and 1030: {k: more_idxs[k] for k in
\* more_idxs_new_keys} is a new dict with the entries at new_keys; the dict
\* more_idxs keeps all of its entries
dict_of_keys(more_idxs, new_keys) ==
    [obj |-> [val |-> [i \in 1..Len(new_keys) |-> more_idxs.val[new_keys[i]]],
              at  |-> <<>>],
     writes |-> <<>>]

\* the objects selector fn may return for idx, with the writes made.  Valid
\* and test (lines 1001-1005, 1026-1030): the stored dict itself, or a new
\* dict of its first entries.  Train (lines 985-996, 1014-1022): a dict that
\* create_random_list or create_similar_list made, or a new dict of entries
\* of it drawn at random.
selector_objects(c, st, idx, fn) ==
    LET field == IF fn = "get_random_more_idx" THEN "RandDS4_Inds" ELSE "DS4_Inds"
        Sources ==
            IF c.split_type = "train"
            THEN { [val |-> m, at |-> <<>>] : m \in SourceMappings(c, st, idx, fn) }
            ELSE { [val |-> st.srl_annots[idx + 1][field],
                    at  |-> <<"srl_annots", idx + 1, field>>] }
        Keys(more_idxs) ==
            LET n == Min(Len(more_idxs.val), c.cs_nvids_sample - 1) IN
            IF c.split_type = "train" THEN Draws(Len(more_idxs.val), n)
            ELSE { [i \in 1..n |-> i] }
    IN  UNION { IF Len(more_idxs.val) > c.cs_nvids_sample - 1
                THEN { dict_of_keys(more_idxs, new_keys) : new_keys \in Keys(more_idxs) }
                ELSE { [obj |-> more_idxs, writes |-> <<>>] } :
                   more_idxs \in Sources }

\* the writes of verb_item_getter_nvid(idx) after the selector returned, when
\* the gathering, the permutation, the slot examples and the SRL fields are
\* those of l and the result is r, and of the SPAT or TEMP getter on r when
\* conc holds
nvid_writes(c, st, idx, l, r, conc) ==
    LET made == [val |-> <<>>, at |-> <<>>]
        \* lines 1367, 1370, 1371: three lists made here, which lines
        \* 1385-1388 and 1397-1400 extend in place.  The selector's dict is
        \* only read (items(), arg_ids[cons]).
        gather == Mutate([val |-> <<idx>>, at |-> <<>>], l.new_idxs)
                  \o Mutate([val |-> <<1>>, at |-> <<>>], l.verb_cmp)
                  \o Mutate([val |-> <<lemma_verb(st, idx)>>, at |-> <<>>], l.verb_list)
    IN  IF l.raised \/ l.hung THEN gather
        ELSE
        LET \* lines 1414, 1415: shuffle_list_from_perm makes new lists
            new_idxs == [val |-> shuffle_list_from_perm(l.new_idxs, l.simple_permute),
                         at  |-> <<>>]
            verb_cmp == [val |-> shuffle_list_from_perm(l.verb_cmp, l.simple_permute),
                         at  |-> <<>>]
            \* lines 1418-1423: the example of every slot and the SRL fields
            \* of the stored row idx; a slot that raises ends the access
            items == Concat([i \in 1..Len(new_idxs.val) |->
                        IF \E j \in 1..(i - 1) : l.new_items[j].raised THEN <<>>
                        ELSE simple_item_getter_writes(
                                c, st, st.srl_annots[new_idxs.val[i] + 1].ann_ind,
                                l.new_items[i])])
                     \o (IF \E i \in 1..Len(l.new_items) : l.new_items[i].raised
                         THEN <<>>
                         ELSE get_srl_anns_writes(c, st,
                                  [val |-> st.srl_annots[idx + 1],
                                   at  |-> <<"srl_annots", idx + 1>>], l.srl))
        IN  gather \o items \o
            (IF r.raised THEN <<>>
             ELSE \* line 1358: update of the dicts simple_item_getter returned;
                  \* line 796: dl_list, a list made for every key, is padded (one
                  \* entry per dict, whatever the key); lines 1437 and 1507:
                  \* update of the dict collate_dict_list made; lines 1439 and
                  \* 1442: the lists of lines 1414 and 1415 are padded
                  (IF c.append_everywhere THEN Mutate(made, l.new_items) ELSE <<>>)
                  \o Concat([k \in 1..Cardinality(DOMAIN l.new_items[1].out_dict) |->
                        PadObject([val |-> l.new_items, at |-> <<>>],
                                  c.cs_nvids_sample, <<l.new_items[1]>>).writes])
                  \o Mutate(made, r.out_dict)
                  \o PadObject(new_idxs, c.cs_nvids_sample, <<1>>).writes
                  \o PadObject(verb_cmp, c.cs_nvids_sample, <<0>>).writes
                  \* lines 1146-1214 and 1291-1334: items of the dict the
                  \* composer returned are assigned; lines 1180 and 1311 add to
                  \* its srl_boxes (x1[x2 > 0] += new_pos); lines 1094, 1194,
                  \* 1241 and 1320 assign into arrays made there
                  \o (IF conc
                      THEN Mutate(made, r.out_dict)
                           \o Mutate(made, r.out_dict.srl_boxes)
                           \o Mutate(made, r.out_dict.pad_frm_mask)
                      ELSE <<>>))

\* the tables after the writes ws, made in this order
RECURSIVE ApplyWrites(_, _)
ApplyWrites(st, ws) ==
    IF ws = <<>> THEN st
    ELSE LET w == Head(ws) IN
         ApplyWrites(IF Len(w.at) = 2
                     THEN [st EXCEPT ![w.at[1]][w.at[2]] = w.val]
                     ELSE [st EXCEPT ![w.at[1]][w.at[2]][w.at[3]] = w.val],
                     Tail(ws))

\* the gathered indices, permutation, slot examples and SRL fields of the
\* composer, for every mapping of the selector and every permutation
NvidLocs(c, st, idx) ==
    UNION { { IF l.raised \/ l.hung THEN l
              ELSE [simple_permute |-> sp,
                    new_items |-> nvid_items(c, st, l, sp),
                    srl |-> get_srl_anns(c, st, st.srl_annots[idx + 1])] @@ l :
                 sp \in IF l.raised \/ l.hung THEN {<<>>}
                        ELSE IF c.cs_shuffle THEN randperm(Len(l.new_idxs))
                        ELSE {arange(Len(l.new_idxs))} } :
            l \in { GatherAll(c, st, idx, more_idxs) :
                       more_idxs \in more_idx_collector(c, st, idx) } }

NvidResult(c, st, idx, l) ==
    IF l.raised \/ l.hung THEN [raised |-> TRUE, at |-> "arg_ids[cons]"]
    ELSE nvid_compose(c, st, idx, l)

\* self.itemgetter(idx)
ItemResult(c, st, idx, l) ==
    CASE c.itemgetter = "verb_item_getter_SPAT" ->
            verb_item_getter_SPAT(c, NvidResult(c, st, idx, l))
      [] c.itemgetter = "verb_item_getter_TEMP" ->
            verb_item_getter_TEMP(c, NvidResult(c, st, idx, l))
      [] OTHER -> verb_item_getter_SEP(NvidResult(c, st, idx, l))

\* the results access op at idx can return from tables st, one for every
\* outcome of its random draws
AccessResults(c, st, op, idx) ==
    CASE op = "simple_item_getter" -> { simple_item_getter(c, st, idx) }
      [] op = "get_srl_anns" -> { get_srl_anns(c, st, st.srl_annots[idx + 1]) }
      [] op = "more_idx_collector" ->
            { [raised |-> FALSE, out_dict |-> m] : m \in more_idx_collector(c, st, idx) }
      [] op = "verb_item_getter_nvid" ->
            { NvidResult(c, st, idx, l) : l \in NvidLocs(c, st, idx) }
      [] op = "__getitem__" ->
            { ItemResult(c, st, idx, l) : l \in NvidLocs(c, st, idx) }

\* a dataset of the valid split (the test split runs the same statements,
\* lines 998 and 1024) under either sample policy; the two stored columns of
\* candidate mappings hold the same names in opposite order
InitTables ==
    /\ pc = "ready"
    /\ loc = None
    /\ ret = None
    /\ \E sample \in {"ds4", "random"}, conc_type \in {"sep", "spat", "temp"},
          n \in 1..MaxNvids, sh \in BOOLEAN, m \in ConcMappings :
            /\ cfg = after_init(ConcBase(MaxNvids * MaxGt, 1), "valid", sample, n,
                                conc_type, sh)
            /\ store = [ConcStore(m, 2) EXCEPT
                           !.srl_annots = [i \in 1..3 |->
                               [@[i] EXCEPT !.RandDS4_Inds = ReverseKeys(m)]]]
    /\ call = [op |-> "none", seq |-> 0, loaded |-> store]

\* the end of an access op at idx whose result is loc' and whose statements
\* made the writes ws
AccessEnd(op, idx, ws) ==
    /\ call' = [op |-> op, idx |-> idx, seq |-> call.seq + 1, loaded |-> call.loaded]
    /\ ret' = IF loc'.raised THEN loc' ELSE loc'.out_dict
    /\ pc' = IF loc'.raised THEN "raised" ELSE "done"
    /\ store' = ApplyWrites(store, ws)
    /\ cfg' = cfg

SimpleItemAccess ==
    /\ pc = "ready"
    /\ call.seq < MaxAccess
    /\ \E idx \in {0, 2} :
         \E r \in {simple_item_getter(cfg, store, idx)} :
            /\ loc' = r
            /\ AccessEnd("simple_item_getter", idx,
                         simple_item_getter_writes(cfg, store, idx, r))

SrlAnnsAccess ==
    /\ pc = "ready"
    /\ call.seq < MaxAccess
    /\ \E idx \in {0, 2} :
         \E r \in {get_srl_anns(cfg, store, store.srl_annots[idx + 1])} :
            /\ loc' = r
            /\ AccessEnd("get_srl_anns", idx,
                         get_srl_anns_writes(cfg, store,
                             [val |-> store.srl_annots[idx + 1],
                              at  |-> <<"srl_annots", idx + 1>>], r))

SelectorAccess ==
    /\ pc = "ready"
    /\ call.seq < MaxAccess
    /\ \E idx \in {0, 2}, fn \in CollectorFns(cfg) :
         \E s \in selector_objects(cfg, store, idx, fn) :
            /\ loc' = [raised |-> FALSE, out_dict |-> s.obj.val]
            /\ AccessEnd("more_idx_collector", idx, s.writes)

NvidAccess ==
    /\ pc = "ready"
    /\ call.seq < MaxAccess
    /\ \E idx \in {0, 2}, fn \in CollectorFns(cfg) :
         \E s \in selector_objects(cfg, store, idx, fn) :
            \E l \in {x \in NvidLocs(cfg, store, idx) : x.more_idxs = s.obj.val} :
               \E r \in {NvidResult(cfg, store, idx, l)} :
                  /\ loc' = r
                  /\ AccessEnd("verb_item_getter_nvid", idx,
                               s.writes \o nvid_writes(cfg, store, idx, l, r, FALSE))

ItemAccess ==
    /\ pc = "ready"
    /\ call.seq < MaxAccess
    /\ \E idx \in {0, 2}, fn \in CollectorFns(cfg) :
         \E s \in selector_objects(cfg, store, idx, fn) :
            \E l \in {x \in NvidLocs(cfg, store, idx) : x.more_idxs = s.obj.val} :
               \E r \in {NvidResult(cfg, store, idx, l)} :
                  /\ loc' = ItemResult(cfg, store, idx, l)
                  /\ AccessEnd("__getitem__", idx,
                               s.writes \o nvid_writes(cfg, store, idx, l, r,
                                               cfg.itemgetter # "verb_item_getter_SEP"))

\* the access is over; the next one finds what it left in the tables
AccessReturn ==
    /\ pc \in {"done", "raised"}
    /\ pc' = "ready"
    /\ call' = [op |-> "none", seq |-> call.seq, loaded |-> call.loaded]
    /\ loc' = None
    /\ ret' = None
    /\ UNCHANGED <<cfg, store>>

NextTables ==
    \/ SimpleItemAccess
    \/ SrlAnnsAccess
    \/ SelectorAccess
    \/ NvidAccess
    \/ ItemAccess
    \/ AccessReturn

SpecTables == InitTables /\ [][NextTables]_vars

(***************************************************************************)
(* C17: the shared tables are read-only after initialization: after any    *)
(* sequence of accesses (simple_item_getter, get_srl_anns, the selector,   *)
(* verb_item_getter_nvid, SPAT, TEMP, SEP) the proposal arrays, annotation *)
(* tables, stored candidate mappings and vocabularies are those the        *)
(* constructor loaded, and the result of an access is one of the results   *)
(* that access has on the loaded tables at that index for some outcome of  *)
(* its own draws, whichever accesses came before it.                       *)
(***************************************************************************)
C17_TablesReadOnly ==
    /\ store = call.loaded
    /\ pc \in {"done", "raised"} =>
          (IF pc = "done" THEN [raised |-> FALSE, out_dict |-> ret] ELSE ret)
             \in AccessResults(cfg, call.loaded, call.op, call.idx)

\* A SPAT example of two slots was returned for index 2 by the second access
\* to the dataset: the selector kept one of the two argument names of the
\* stored mapping of index 2, and the stored mapping still has both names.
C17_Witness ==
    /\ pc = "done"
    /\ call.op = "__getitem__"
    /\ call.seq = 2
    /\ call.idx = 2
    /\ cfg.itemgetter = "verb_item_getter_SPAT"
    /\ cfg.cs_nvids_sample = 2
    /\ Len(store.srl_annots[3].DS4_Inds) = 2
    /\ Len(call.loaded.srl_annots[3].DS4_Inds) = 2
    /\ ret.num_cmp = 1
    /\ Len(ret.pad_proposals) = 4

\* the slot (0-based) and the row inside the slot (0-based) that output row
\* i (0-based) of the joined proposals comes from
ConcSlotOf(i) ==
    IF call.op = "verb_item_getter_SPAT"
    THEN (i % (cfg.cs_nvids_sample * cfg.num_prop_per_frm)) \div cfg.num_prop_per_frm
    ELSE i \div cfg.max_proposals

ConcLocalOf(i) ==
    IF call.op = "verb_item_getter_SPAT"
    THEN (i \div (cfg.cs_nvids_sample * cfg.num_prop_per_frm)) * cfg.num_prop_per_frm
            + (i % cfg.num_prop_per_frm)
    ELSE i % cfg.max_proposals

\* output row i (0-based) holds a detection of its video, not padding
ConcRealProposal(o, i) ==
    /\ ConcSlotOf(i) < o.num_cmp
    /\ ConcLocalOf(i) < o.num_props[ConcSlotOf(i) + 1]

\* C21 as stated: the recomputed pad_frm_mask has one row per joined
\* proposal and max_gt_box columns; an entry is 0 only for a real proposal
\* row, a column below num_box and equal frame indices, and every entry of a
\* padding proposal row or of a column at or beyond num_box is 1.
C21_FrmMaskPadded ==
    ConcDone =>
        LET o == nvid_compose(cfg, store, call.idx, loc).out_dict IN
        /\ Len(ret.pad_frm_mask) = Len(ret.pad_proposals)
        /\ \A i \in 1..Len(ret.pad_frm_mask) :
              /\ Len(ret.pad_frm_mask[i]) = cfg.max_gt_box
              /\ \A j \in 1..cfg.max_gt_box :
                    /\ ret.pad_frm_mask[i][j] \in {0, 1}
                    /\ (ret.pad_frm_mask[i][j] = 0 =>
                          /\ ConcRealProposal(o, i - 1)
                          /\ j <= ret.num_box
                          /\ ret.pad_proposals[i][ColFrm] = ret.pad_gt_bboxs[j][ColFrm])
                    /\ ((~ConcRealProposal(o, i - 1) \/ j > ret.num_box) =>
                          ret.pad_frm_mask[i][j] = 1)

(***************************************************************************)
(* AnetEntDataset.get_seg_feat_for_frms (lines 257-316).  Times are        *)
(* integers counting quarter seconds; a segment feature row is a sequence  *)
(* of float entries.  The clip durations of the model are odd or multiples *)
(* of ten quarter seconds: for these the float64 arithmetic of lines       *)
(* 283-287 gives the truncation of the exact quotient computed here.       *)
(***************************************************************************)
MaxSegFrms == 4   \* most rows of a raw segment feature
MaxCtx     == 2   \* largest ctx_for_seg_feats
MaxStart   == 3   \* latest clip start, in quarter seconds
MaxDur     == 20  \* longest clip, in quarter seconds

\* python int(): truncation toward zero of the quotient a / b, b > 0
TruncDiv(a, b) == IF a >= 0 THEN a \div b ELSE -((-a) \div b)

\* numpy mean(axis=0) of a sequence of rows of width dim; the mean of no
\* row is a row of nan.  The entries of the model divide exactly.
MeanRows(rows, dim) ==
    IF Len(rows) = 0 THEN [k \in 1..dim |-> [nan |-> TRUE]]
    ELSE [k \in 1..dim |-> SumSeq([i \in 1..Len(rows) |-> rows[i][k]]) \div Len(rows)]

\* python a[lo:hi] for 0 <= lo, 0 <= hi
PySlice(a, lo, hi) == SubSeq(a, lo + 1, Min(hi, Len(a)))

\* lines 274-280: the timestamps in order
OrderedStamps(timestamps) ==
    IF timestamps[1] > timestamps[2] THEN <<timestamps[2], timestamps[1]>> ELSE timestamps

\* lines 283-287: (frm_time * 2).astype(int) - 1 clamped to [0, num_frms - 1].
\* frm_time = st_time + (duration_clip / 10) * (frm_ind + 0.5) counts
\* 1/80 s when multiplied out: 20 * st_time + duration_clip * (2 * frm_ind + 1).
frm_index_in_seg_feat(timestamps, num_frms) ==
    LET ts            == OrderedStamps(timestamps)
        st_time       == ts[1]
        end_time      == ts[2]
        duration_clip == end_time - st_time
    IN  [b \in 1..10 |->
            LET frm_ind    == b - 1
                frm_time80 == 20 * st_time + duration_clip * (2 * frm_ind + 1)
            IN  Min(Max(TruncDiv(frm_time80, 40) - 1, 0), num_frms - 1)]

end_indices_NoPlusOne(frm_index, ctx, num_frms) ==
    [b \in 1..Len(frm_index) |-> Min(frm_index[b] + ctx, num_frms)]

\* line 290
st_indices(frm_index, ctx) ==
    [b \in 1..Len(frm_index) |-> Max(frm_index[b] - ctx - 1, 0)]

\* line 291
end_indices(frm_index, ctx, num_frms) ==
    [b \in 1..Len(frm_index) |-> Min(frm_index[b] + ctx + 1, num_frms)]

\* lines 273-316: the local variables and the two results, or the failed
\* assertion of line 304
get_seg_feat_for_frms(c, seg_feats, timestamps) ==
    LET ctx      == c.ctx_for_seg_feats
        num_frms == Len(seg_feats)
        dim      == Len(seg_feats[1])
        fi       == frm_index_in_seg_feat(timestamps, num_frms)
        sti      == st_indices(fi, ctx)
        endi     == end_indices(fi, ctx, num_frms)
        fallback == sti[1] = endi[10]
        glob     == IF ~fallback
                    THEN MeanRows(PySlice(seg_feats, sti[1], endi[10]), dim)
                    ELSE seg_feats[sti[1] + 1]
        locals   == [frm_index_in_seg_feat |-> fi, st_indices |-> sti,
                     end_indices |-> endi, fallback |-> fallback]
    IN  IF \E b \in 1..10 : ~(endi[b] - sti[b] > 0)
        THEN [raised |-> TRUE, at |-> "assert end_indices - st_indices > 0"] @@ locals
        ELSE [raised |-> FALSE,
              seg_feats_frms |->
                 IF ctx # 0
                 THEN [b \in 1..10 |-> MeanRows(PySlice(seg_feats, sti[b], endi[b]), dim)]
                 ELSE [b \in 1..10 |-> seg_feats[fi[b] + 1]],
              seg_feats_frms_glob |-> glob] @@ locals

(***************************************************************************)
(* The specification of the temporal pooling: a raw segment feature of one *)
(* to MaxSegFrms rows, a ctx of 0..MaxCtx and two timestamps in either     *)
(* order; the one action is a call of get_seg_feat_for_frms.               *)
(***************************************************************************)
\* row i (1-based) of the raw feature has one column; the entries differ by
\* unequal steps and their sums over up to six rows divide exactly
InitSeg ==
    /\ pc = "ready"
    /\ call = [op |-> "none"]
    /\ loc = None
    /\ ret = None
    /\ \E ctx \in 0..MaxCtx, num_frms \in 1..MaxSegFrms, st \in 0..MaxStart,
          d \in { x \in 0..MaxDur : x % 2 = 1 \/ x % 10 = 0 }, inverted \in BOOLEAN :
            /\ cfg = [ctx_for_seg_feats |-> ctx]
            /\ store = [seg_feature_raw |-> [i \in 1..num_frms |-> <<Fl(60 * i * i)>>],
                        timestamps |-> IF inverted THEN <<st + d, st>> ELSE <<st, st + d>>]

GetSegFeatCall ==
    /\ pc = "ready"
    /\ call' = [op |-> "get_seg_feat_for_frms"]
    /\ loc' = get_seg_feat_for_frms(cfg, store.seg_feature_raw, store.timestamps)
    /\ ret' = IF loc'.raised THEN [raised |-> TRUE, at |-> loc'.at]
              ELSE <<loc'.seg_feats_frms, loc'.seg_feats_frms_glob>>
    /\ pc' = IF loc'.raised THEN "raised" ELSE "done"
    /\ UNCHANGED <<cfg, store>>

NextSeg == GetSegFeatCall \/ Return

SpecSeg == InitSeg /\ [][NextSeg]_vars

SegDone == pc = "done" /\ call.op = "get_seg_feat_for_frms"

\* the rows of seg_feats at the 0-based indices lo..hi that exist
RowsAt(seg_feats, lo, hi) ==
    SubSeq(seg_feats, Max(lo, 0) + 1, Min(hi, Len(seg_feats) - 1) + 1)

\* C22 as stated: each of the 10 bins has its centre c in [0, num_frms - 1];
\* with ctx # 0 the bin value is the mean of the features at c - ctx ..
\* c + ctx cut to [0, num_frms - 1], with ctx = 0 it is the feature at c;
\* the global vector is the mean from the first bin's window start to the
\* last bin's window end.
C22_SymmetricWindow ==
    SegDone =>
        LET ctx  == cfg.ctx_for_seg_feats
            sf   == store.seg_feature_raw
            n    == Len(sf)
            c    == loc.frm_index_in_seg_feat
        IN  /\ Len(ret[1]) = 10
            /\ \A b \in 1..10 :
                  /\ c[b] \in 0..(n - 1)
                  /\ ret[1][b] = IF ctx # 0
                                 THEN MeanRows(RowsAt(sf, c[b] - ctx, c[b] + ctx), 1)
                                 ELSE sf[c[b] + 1]
            /\ ret[2] = MeanRows(RowsAt(sf, c[1] - ctx, c[10] + ctx), 1)

SegCalled == pc \in {"done", "raised"} /\ call.op = "get_seg_feat_for_frms"

(***************************************************************************)
(* C30: for a feature of num_frms >= 1 rows, every ctx >= 0 and two        *)
(* timestamps in either order, the call does not fail the assertion on the *)
(* window sizes: each of the 10 bin centres lies in [0, num_frms - 1], the *)
(* centres do not decrease from bin to bin, every bin window has           *)
(* start < end, and the global window from the first bin's start to the    *)
(* last bin's end is not empty, so the single-index fallback is not taken. *)
(***************************************************************************)
C30_WindowsNonEmpty ==
    SegCalled =>
        LET n == Len(store.seg_feature_raw) IN
        /\ pc = "done"
        /\ \A b \in 1..10 :
              /\ loc.frm_index_in_seg_feat[b] \in 0..(n - 1)
              /\ loc.st_indices[b] < loc.end_indices[b]
              /\ loc.st_indices[b] >= 0
              /\ loc.end_indices[b] <= n
              /\ loc.st_indices[b] <= loc.frm_index_in_seg_feat[b]
              /\ loc.frm_index_in_seg_feat[b] < loc.end_indices[b]
        /\ \A b \in 1..9 : loc.frm_index_in_seg_feat[b] <= loc.frm_index_in_seg_feat[b + 1]
        /\ loc.st_indices[1] < loc.end_indices[10]
        /\ ~loc.fallback
        /\ ret[2] = MeanRows(PySlice(store.seg_feature_raw,
                                     loc.st_indices[1], loc.end_indices[10]), 1)

\* Timestamps given in inverted order (3 s before 0.25 s), ctx = 0 and a
\* feature of two rows: the centres climb from 0 to 1, the first window is
\* [0, 1) and the last [0, 2).
C30_Witness ==
    /\ SegDone
    /\ cfg.ctx_for_seg_feats = 0
    /\ store.timestamps = <<12, 1>>
    /\ Len(store.seg_feature_raw) = 2
    /\ loc.frm_index_in_seg_feat[1] = 0
    /\ loc.frm_index_in_seg_feat[10] = 1
    /\ loc.st_indices[1] = 0
    /\ loc.end_indices[1] = 1
    /\ loc.st_indices[10] = 0
    /\ loc.end_indices[10] = 2

\* a SPAT or TEMP call whose gathered slots all came back without a
\* ground-truth box
ConcNoGt ==
    /\ pc \in {"done", "raised"}
    /\ call.op \in {"verb_item_getter_SPAT", "verb_item_getter_TEMP"}
    /\ "new_items" \in DOMAIN loc
    /\ \A k \in 1..Len(loc.new_items) :
          /\ ~loc.new_items[k].raised
          /\ loc.new_items[k].out_dict.num_box = 0

(***************************************************************************)
(* C23: in SPAT and TEMP, when every slot has num_box = 0 the getter       *)
(* returns: pad_gt_bboxs has max_gt_box rows of 5 zeros, pad_gt_box_mask   *)
(* is all 0 (max_gt_box entries, inside one more axis in TEMP), num_box is *)
(* 0 and pad_frm_mask is 1 everywhere.                                     *)
(***************************************************************************)
C23_NoGtFallback ==
    ConcNoGt =>
        /\ pc = "done"
        /\ ret.num_box = 0
        /\ \A v \in 1..Len(ret.num_box2) : ret.num_box2[v] = 0
        /\ ret.pad_gt_bboxs = [j \in 1..cfg.max_gt_box |-> Zeros(5)]
        /\ ret.pad_gt_box_mask = IF call.op = "verb_item_getter_SPAT"
                                 THEN Zeros(cfg.max_gt_box)
                                 ELSE <<Zeros(cfg.max_gt_box)>>
        /\ Len(ret.pad_frm_mask) = cfg.cs_nvids_sample * cfg.max_proposals
        /\ \A i \in 1..Len(ret.pad_frm_mask) : ret.pad_frm_mask[i] = Ones(cfg.max_gt_box)

\* SPAT over two slots, both the video without boxes (the second slot is
\* the copy that fills the example): the joined boxes are two zero rows.
C23_Witness ==
    /\ ConcNoGt
    /\ pc = "done"
    /\ call.op = "verb_item_getter_SPAT"
    /\ cfg.cs_nvids_sample = 2
    /\ cfg.max_gt_box = 2
    /\ ret.num_box2 = <<0, 0>>
    /\ ret.num_props = 4
    /\ ret.pad_gt_bboxs = <<Zeros(5), Zeros(5)>>
    /\ ret.pad_frm_mask[1] = <<1, 1>>

\* the word count of argument slot k (1-based) of the current call: the
\* number of word indices of the frame's k-th argument, 0 for a slot the
\* frame does not fill
SlotWords(k) ==
    IF k <= Len(call.srl_row.req_pat_ix) THEN Len(call.srl_row.req_pat_ix[k][2]) ELSE 0

\* the word counts of the srl_arg_len slots
SlotCounts == [k \in 1..cfg.srl_arg_len |-> SlotWords(k)]

(***************************************************************************)
(* C24: srl_arg_word_mask has seq_length entries; with total the sum of    *)
(* the word counts of the srl_arg_len slots, its first min(total,          *)
(* seq_length) entries are the values k*seq_length + j in argument order   *)
(* (slot k, then position j), each with k < srl_arg_len and                *)
(* j < min(word count of slot k, seq_length): position S_k + j holds       *)
(* k*seq_length + j, where S_k is the number of words of the slots before  *)
(* k.  Every other entry is -1, and srl_arg_word_mask_len is the number of *)
(* entries that are not -1.                                                *)
(***************************************************************************)
C24_WordMask ==
    SrlDone =>
        LET Sq    == cfg.seq_length
            L     == cfg.srl_arg_len
            total == SumSeq(SlotCounts)
            m     == Min(total, Sq)
            mask  == ret.srl_arg_word_mask
        IN  /\ Len(mask) = Sq
            /\ \A k \in 0..(L - 1) : \A j \in 0..(SlotWords(k + 1) - 1) :
                  LET p == SumSeq(SubSeq(SlotCounts, 1, k)) + j IN
                  p < Sq => mask[p + 1] = k * Sq + j
            /\ \A p \in 1..m :
                  LET k == mask[p] \div Sq
                      j == mask[p] % Sq
                  IN  /\ mask[p] >= 0
                      /\ k < L
                      /\ j < Min(SlotWords(k + 1), Sq)
                      /\ p - 1 = SumSeq(SubSeq(SlotCounts, 1, k)) + j
            /\ \A p \in (m + 1)..Sq : mask[p] = -1
            /\ ret.srl_arg_word_mask_len = Cardinality({p \in 1..Sq : mask[p] # -1})
            /\ ret.srl_arg_word_mask_len = m

\* The frame (ARG0, V, ARG1) of 2, 1 and 1 words in three slots of
\* seq_length 5: the map is 0, 1 (slot 0), 5 (slot 1), 10 (slot 2), then -1.
C24_Witness ==
    /\ SrlDone
    /\ cfg.srl_arg_len = 3
    /\ cfg.seq_length = 5
    /\ CallArgs = <<"ARG0", "V", "ARG1">>
    /\ ret.srl_arg_word_mask = <<0, 1, 5, 10, -1>>
    /\ ret.srl_arg_word_mask_len = 4

\* S_k: the number of words of the slots before slot k (1-based)
WordsBefore(k) == SumSeq(SubSeq(SlotCounts, 1, k - 1))

(***************************************************************************)
(* C25: for every slot k < srl_arg_len with len_k > 0 words and S_k words  *)
(* in the slots before it, srl_arg_words_capture[k] is                     *)
(* (min(S_k, seq_length-1), min(S_k + len_k - 1, seq_length-1)), so        *)
(* 0 <= start <= end <= seq_length-1; a slot of no words has (0, 0); for   *)
(* every flat position p < min(total, seq_length) the entry                *)
(* srl_arg_words_map_inv[p] is the slot that owns p (S_k <= p < S_k +      *)
(* len_k) and its capture span contains p; the positions from the total on *)
(* hold 0.                                                                 *)
(***************************************************************************)
C25_CaptureSpans ==
    SrlDone =>
        LET Sq    == cfg.seq_length
            L     == cfg.srl_arg_len
            total == SumSeq(SlotCounts)
            cap   == ret.srl_arg_words_capture
            inv   == ret.srl_arg_words_map_inv
        IN  /\ Len(cap) = L
            /\ Len(inv) = Sq
            /\ \A k \in 1..L :
                  IF SlotWords(k) > 0
                  THEN /\ cap[k] = <<Min(WordsBefore(k), Sq - 1),
                                     Min(WordsBefore(k) + SlotWords(k) - 1, Sq - 1)>>
                       /\ 0 <= cap[k][1]
                       /\ cap[k][1] <= cap[k][2]
                       /\ cap[k][2] <= Sq - 1
                  ELSE cap[k] = <<0, 0>>
            /\ \A p \in 0..(Min(total, Sq) - 1) :
                  LET k == inv[p + 1] + 1 IN
                  /\ k \in 1..L
                  /\ WordsBefore(k) <= p
                  /\ p < WordsBefore(k) + SlotWords(k)
                  /\ cap[k][1] <= p
                  /\ p <= cap[k][2]
            /\ \A p \in total..(Sq - 1) : inv[p + 1] = 0

\* The frame (ARG0, V) of 2 and 1 words in three slots of seq_length 5: the
\* spans are (0, 1), (2, 2) and (0, 0) for the unfilled slot; positions 0
\* and 1 belong to slot 0, position 2 to slot 1, and positions 3 and 4 are
\* beyond the three words.
C25_Witness ==
    /\ SrlDone
    /\ cfg.srl_arg_len = 3
    /\ cfg.seq_length = 5
    /\ CallArgs = <<"ARG0", "V">>
    /\ ret.srl_arg_words_capture = << <<0, 1>>, <<2, 2>>, <<0, 0>> >>
    /\ ret.srl_arg_words_map_inv = <<0, 0, 1, 0, 0>>

\* the lemma verb of slot i (0-based, below num_cmp) of the returned example
SlotVerb(i) == lemma_verb(store, ret.new_srl_idxs[i + 1])

(***************************************************************************)
(* C26: verb_cross_cmp, verb_cross_cmp_msk and num_cross_cmp_msk are       *)
(* cs_nvids_sample x cs_nvids_sample; verb_cross_cmp[i][j] = 1 iff         *)
(* i < num_cmp, j < num_cmp and the lemma verbs of slots i and j are equal *)
(* (symmetric, 1 on the diagonal below num_cmp); verb_cross_cmp_msk[i][j]  *)
(* = 1 iff i < num_cmp and j < num_cmp; num_cross_cmp_msk[i][j] = 1 iff    *)
(* i = j < num_cmp; and row target_cmp of verb_cross_cmp is verb_cmp.      *)
(***************************************************************************)
C26_CrossMatrices ==
    NvidDone =>
        LET n  == cfg.cs_nvids_sample
            nc == ret.num_cmp
        IN  /\ \A key \in {"verb_cross_cmp", "verb_cross_cmp_msk", "num_cross_cmp_msk"} :
                  /\ Len(ret[key]) = n
                  /\ \A i \in 1..n : Len(ret[key][i]) = n
            /\ \A i, j \in 0..(n - 1) :
                  /\ ret.verb_cross_cmp[i + 1][j + 1] =
                        BoolBit(i < nc /\ j < nc /\ SlotVerb(i) = SlotVerb(j))
                  /\ ret.verb_cross_cmp[i + 1][j + 1] = ret.verb_cross_cmp[j + 1][i + 1]
                  /\ ret.verb_cross_cmp_msk[i + 1][j + 1] = BoolBit(i < nc /\ j < nc)
                  /\ ret.num_cross_cmp_msk[i + 1][j + 1] = BoolBit(i = j /\ i < nc)
            /\ \A i \in 0..(nc - 1) : ret.verb_cross_cmp[i + 1][i + 1] = 1
            /\ ret.verb_cross_cmp[ret.target_cmp + 1] = ret.verb_cmp

\* Two videos of different verbs in three slots, shuffled so that the
\* target is slot 1: the equality matrix is the identity on the two real
\* slots and its row 1 is verb_cmp.
C26_Witness ==
    /\ NvidDone
    /\ cfg.cs_nvids_sample = 3
    /\ ret.num_cmp = 2
    /\ ret.target_cmp = 1
    /\ ret.verb_cmp = <<0, 1, 0>>
    /\ ret.verb_cross_cmp = << <<1, 0, 0>>, <<0, 1, 0>>, <<0, 0, 0>> >>
    /\ ret.verb_cross_cmp_msk = << <<1, 1, 0>>, <<1, 1, 0>>, <<0, 0, 0>> >>
    /\ ret.num_cross_cmp_msk = << <<1, 0, 0>>, <<0, 1, 0>>, <<0, 0, 0>> >>

(***************************************************************************)
(* C27: for every slot k < srl_arg_len that the frame fills, srl_boxes[k]  *)
(* has box_per_srl_arg entries, the argument's first box indices in order  *)
(* and 0 after them; srl_boxes_lens[k] has 1 on exactly the first          *)
(* min(number of boxes, box_per_srl_arg) positions when the argument's     *)
(* validity flag is 1 and is all 0 when the flag is 0; srl_arg_boxes_mask  *)
(* is the sequence of flags truncated or padded with 0 to srl_arg_len; and *)
(* the slots beyond the frame's arguments are 0 in all three outputs.      *)
(***************************************************************************)
C27_BoxLinks ==
    SrlDone =>
        LET pats == call.srl_row.req_cls_pats_mask
            K    == Len(pats)
            L    == cfg.srl_arg_len
            B    == cfg.box_per_srl_arg
        IN  /\ Len(ret.srl_boxes) = L
            /\ Len(ret.srl_boxes_lens) = L
            /\ Len(ret.srl_arg_boxes_mask) = L
            /\ \A k \in 1..Min(K, L) :
                  LET flag  == pats[k][2]
                      boxes == pats[k][3]
                      nb    == Min(Len(boxes), B)
                  IN  /\ Len(ret.srl_boxes[k]) = B
                      /\ Len(ret.srl_boxes_lens[k]) = B
                      /\ \A b \in 1..B :
                            /\ ret.srl_boxes[k][b] = (IF b <= nb THEN boxes[b] ELSE 0)
                            /\ ret.srl_boxes_lens[k][b] =
                                  (IF flag = 1 /\ b <= nb THEN 1 ELSE 0)
                      /\ ret.srl_arg_boxes_mask[k] = flag
            /\ \A k \in (K + 1)..L :
                  /\ ret.srl_boxes[k] = Zeros(B)
                  /\ ret.srl_boxes_lens[k] = Zeros(B)
                  /\ ret.srl_arg_boxes_mask[k] = 0

\* The frame (V, ARG0) in three slots with two links per argument: V has
\* the flag 0 and no valid link, ARG0 keeps the first two of its three
\* boxes, and slot 2 is empty.
C27_Witness ==
    /\ SrlDone
    /\ cfg.srl_arg_len = 3
    /\ cfg.box_per_srl_arg = 2
    /\ CallArgs = <<"V", "ARG0">>
    /\ call.srl_row.req_cls_pats_mask[2][3] = <<0, 1, 2>>
    /\ ret.srl_boxes = << <<0, 0>>, <<0, 1>>, <<0, 0>> >>
    /\ ret.srl_boxes_lens = << <<0, 0>>, <<1, 1>>, <<0, 0>> >>
    /\ ret.srl_arg_boxes_mask = <<0, 1, 0>>

\* the ground-truth rows of the gathered videos, each once, in slot order
\* and with the slot's offset
GatheredGtRows ==
    Concat([k \in 1..Len(loc.new_items) |->
              LET o == loc.new_items[k].out_dict IN
              [j \in 1..Min(o.num_box, Len(o.pad_gt_bboxs)) |->
                  OffsetGtRow(o.pad_gt_bboxs[j], k - 1)]])

\* C28 as stated: in every example returned by SPAT or TEMP, num_box is the
\* sum of the box counts of the num_cmp gathered videos, num_props the sum
\* of their proposal counts, and the joined pad_gt_bboxs holds each
\* gathered video's boxes exactly once; the padding slots add nothing.
C28_CountsRealVideos ==
    ConcDone =>
        LET items == loc.new_items IN
        /\ ret.num_box = SumSeq([k \in 1..Len(items) |-> items[k].out_dict.num_box])
        /\ ret.num_props = SumSeq([k \in 1..Len(items) |-> items[k].out_dict.num_props])
        /\ PyPrefix(ret.pad_gt_bboxs, ret.num_box) = GatheredGtRows

\* the fields of the returned example that the composer produced and the
\* concatenation leaves alone
ConcKeepsComposerFields ==
    LET o == nvid_compose(cfg, store, call.idx, loc).out_dict IN
    \A key \in {"target_cmp", "permute", "permute_inv", "verb_cmp", "new_srl_idxs"} :
        ret[key] = o[key]

\* C29 as stated: every example returned by SPAT or TEMP, where num_cmp is
\* 1, has num_cmp_msk.sum() = num_cmp, and its target_cmp, permute,
\* permute_inv, verb_cmp and new_srl_idxs are the composer's values.
C29_MaskSumIsNumCmp ==
    ConcDone =>
        /\ SumSeq(ret.num_cmp_msk) = ret.num_cmp
        /\ ConcKeepsComposerFields

(***************************************************************************)
(* C29: in every example returned by SPAT or TEMP num_cmp is 1 and         *)
(* num_cmp_msk is the composer's mask, unchanged: cs_nvids_sample entries  *)
(* whose sum is the number of gathered videos, so num_cmp_msk.sum() equals *)
(* num_cmp exactly when one video was gathered; target_cmp, permute,       *)
(* permute_inv, verb_cmp and new_srl_idxs are the composer's values: the   *)
(* slot target_cmp holds the queried row and has verb_cmp 1, and permute   *)
(* starts with the permutation drawn.                                      *)
(***************************************************************************)
C29_ConcBookkeeping ==
    ConcDone =>
        LET gathered == Len(loc.new_items) IN
        /\ ret.num_cmp = 1
        /\ Len(ret.num_cmp_msk) = cfg.cs_nvids_sample
        /\ ret.num_cmp_msk = Ones(gathered) \o Zeros(cfg.cs_nvids_sample - gathered)
        /\ SumSeq(ret.num_cmp_msk) = gathered
        /\ (SumSeq(ret.num_cmp_msk) = ret.num_cmp <=> gathered = 1)
        /\ ConcKeepsComposerFields
        /\ ret.new_srl_idxs[ret.target_cmp + 1] = call.idx
        /\ ret.verb_cmp[ret.target_cmp + 1] = 1
        /\ SubSeq(ret.permute, 1, gathered) = loc.simple_permute
        /\ Len(ret.permute) = cfg.cs_nvids_sample
        /\ Len(ret.permute_inv) = cfg.cs_nvids_sample

\* A shuffled TEMP example of three gathered videos with the target in
\* slot 2: num_cmp is 1 and the mask still counts three.
C29_Witness ==
    /\ ConcDone
    /\ call.op = "verb_item_getter_TEMP"
    /\ cfg.cs_nvids_sample = 3
    /\ Len(loc.new_items) = 3
    /\ ret.num_cmp = 1
    /\ ret.num_cmp_msk = <<1, 1, 1>>
    /\ ret.target_cmp = 2
    /\ ret.permute # ret.permute_inv

=============================================================================
